---- MODULE Spec2Model ----
(***************************************************************************)
(* Deputy timesheet-webhook pipeline: event parser, Redis dedupe lock,     *)
(* webhook handler and side-effect dispatcher of deputy-service; the       *)
(* employee status broadcaster of dashboard-service with its startup       *)
(* recovery; the processed-item marks of workflow-service.                 *)
(*                                                                         *)
(* Python values are modelled as tagged records so that values of          *)
(* different Python types can be compared:                                 *)
(*   None -> [t |-> "null"], bool -> [t |-> "bool", b], int -> [t |->      *)
(*   "int", n], float -> [t |-> "float", k, tenths], str -> [t |-> "str",  *)
(*   s], list -> [t |-> "list", items], dict -> [t |-> "obj", f].          *)
(* An exception leaving a function is the value [t |-> "raise", exc].      *)
(***************************************************************************)
EXTENDS Integers, Sequences, FiniteSets, TLC

VARIABLES
    payload,      \* parser harness: the JSON value handed to parse_timesheet_webhook
    result,       \* parser harness: what parse_timesheet_webhook returned (or raised)
    now,          \* wall-clock time in seconds
    ticks,        \* number of times the clock has advanced
    store,        \* the Redis keyspace: key -> [value, expire_at, ...]
    req,          \* per webhook delivery: the state of handle_timesheet_webhook
    task,         \* per webhook delivery: the state of its background process_timesheet_event
    dnd_calls,    \* per delivery: POSTs sent to the RingCentral service
    dashboard_calls, \* per delivery: POSTs sent to the dashboard service
    complete_calls,  \* per delivery: mark_dedupe_completed calls made
    calls,        \* lock harness: per client call of redis_client, its progress and result
    lclock,       \* lock harness: logical clock ordering issues and executions
    statuses,     \* broadcaster: EmployeeStatusManager._statuses, employee id -> record
    connections,  \* broadcaster: EmployeeStatusManager._connections (registered websockets)
    sockets,      \* broadcaster: per websocket, its handler's position and the client's side
    updates,      \* broadcaster: per call of the internal update endpoint, its progress
    last_init,    \* broadcaster: the startup run, or the last initialize_employee call for an id already in the table
    processed_items, \* workflow-service: the processed_items table, primary key -> row
    wf_log        \* workflow-service: what each pass of the outgoing_call loop did

parserVars == <<payload, result>>
storeVars == <<now, ticks, store>>
pipelineVars == <<req, task, dnd_calls, dashboard_calls, complete_calls>>
lockVars == <<calls, lclock>>
broadcastVars == <<statuses, connections, sockets, updates, last_init>>
workflowVars == <<processed_items, wf_log>>
vars == <<payload, result, now, ticks, store, req, task, dnd_calls, dashboard_calls,
          complete_calls, calls, lclock,
          statuses, connections, sockets, updates, last_init,
          processed_items, wf_log>>

----------------------------------------------------------------------------
(* JSON / Python values *)

JNull == [t |-> "null"]
JBool(b) == [t |-> "bool", b |-> b]
JInt(n) == [t |-> "int", n |-> n]
JFloat(tenths) == [t |-> "float", k |-> "fin", tenths |-> tenths]
JNaN == [t |-> "float", k |-> "nan"]
JInf == [t |-> "float", k |-> "inf"]
JStr(s) == [t |-> "str", s |-> s]
JList(q) == [t |-> "list", items |-> q]
JObj(f) == [t |-> "obj", f |-> f]
EmptyObj == JObj(<<>>)

Raise(e) == [t |-> "raise", exc |-> e]
IsRaise(v) == "exc" \in DOMAIN v

\* Marker used only while building input objects: the key is not in the dict.
Absent == [t |-> "absent"]
MkObj(choice) ==
    JObj([k \in {x \in DOMAIN choice : choice[x] # Absent} |-> choice[k]])

\* Python truth value of a JSON value (bool(x)).
Truthy(v) ==
    CASE v.t = "null" -> FALSE
      [] v.t = "bool" -> v.b
      [] v.t = "int" -> v.n # 0
      [] v.t = "float" -> IF v.k = "fin" THEN v.tenths # 0 ELSE TRUE
      [] v.t = "str" -> v.s # ""
      [] v.t = "key" -> TRUE                      \* a dedupe key is a non-empty str
      [] v.t = "list" -> Len(v.items) > 0
      [] v.t = "obj" -> DOMAIN v.f # {}

\* dict.get(key) and dict.get(key, default)
DictGetD(obj, key, default) == IF key \in DOMAIN obj.f THEN obj.f[key] ELSE default
DictGet(obj, key) == DictGetD(obj, key, JNull)

----------------------------------------------------------------------------
(* Python str operations on the finite universe of strings the inputs use.  *)
(* A Python string is [s |-> "..."]; the repr of a float, list or dict,     *)
(* which equals no string of the universe, is [repr |-> value].             *)

\* str.strip()
Strip(s) ==
    CASE s = " 100 " -> "100"
      [] s = "  " -> ""
      [] s = " Yes " -> "Yes"
      [] s = " timesheet.insert " -> "timesheet.insert"
      [] OTHER -> s

\* str.lower()
Lower(s) ==
    CASE s = "TRUE" -> "true"
      [] s = "Yes" -> "yes"
      [] s = " Yes " -> " yes "
      [] s = "False" -> "false"
      [] s = "True" -> "true"
      [] s = "None" -> "none"
      [] s = "B" -> "b"
      [] s = "S" -> "s"
      [] s = "In Progress" -> "in progress"
      [] s = "Break Started" -> "break started"
      [] s = "Finished" -> "finished"
      [] s = "Timesheet.Insert" -> "timesheet.insert"
      [] s = "Timesheet.Update" -> "timesheet.update"
      [] s = "Id" -> "id"
      [] OTHER -> s

\* str.upper()
Upper(s) ==
    CASE s = "b" -> "B"
      [] s = "s" -> "S"
      [] s = "None" -> "NONE"
      [] s = "True" -> "TRUE"
      [] s = "False" -> "FALSE"
      [] s = "abc" -> "ABC"
      [] s = "data" -> "DATA"
      [] s = "Id" -> "ID"
      [] s = "nan" -> "NAN"
      [] s = "1e999" -> "1E999"
      [] s = "t1" -> "T1"
      [] s = "t2" -> "T2"
      [] OTHER -> s

\* needle in haystack, for the two needles _is_break_in_progress uses
ContainsInProgress(s) == s \in {"in progress"}
ContainsStarted(s) == s \in {"started", "break started"}

\* str(n) for the integers that have a numeral in the string universe
HasNumeral(n) == n \in {0, 1, 5, 6, 100}
DecStr(n) ==
    CASE n = 0 -> "0" [] n = 1 -> "1" [] n = 5 -> "5" [] n = 6 -> "6" [] n = 100 -> "100"

\* str(value)
PyStr(v) ==
    CASE v.t = "str" -> [s |-> v.s]
      [] v.t = "null" -> [s |-> "None"]
      [] v.t = "bool" -> [s |-> IF v.b THEN "True" ELSE "False"]
      [] v.t = "int" -> IF HasNumeral(v.n) THEN [s |-> DecStr(v.n)] ELSE [repr |-> v]
      [] OTHER -> [repr |-> v]

IsText(ps) == "s" \in DOMAIN ps
PyStrip(ps) == IF IsText(ps) THEN [s |-> Strip(ps.s)] ELSE ps
PyLower(ps) == IF IsText(ps) THEN [s |-> Lower(ps.s)] ELSE ps
PyUpper(ps) == IF IsText(ps) THEN [s |-> Upper(ps.s)] ELSE ps

\* float(s) for a stripped string: a float value, or ValueError
FloatOfStr(s) ==
    CASE s = "0" -> JFloat(0)
      [] s = "1" -> JFloat(10)
      [] s = "100" -> JFloat(1000)
      [] s = "7.9" -> JFloat(79)
      [] s = "1e999" -> JInf
      [] s = "nan" -> JNaN
      [] OTHER -> Raise("ValueError")

\* int(x) for a float x: truncation toward zero; nan and infinity raise
IntOfFloat(x) ==
    CASE x.k = "nan" -> Raise("ValueError")
      [] x.k = "inf" -> Raise("OverflowError")
      [] OTHER -> JInt(IF x.tenths >= 0 THEN x.tenths \div 10
                                         ELSE -((-x.tenths) \div 10))

----------------------------------------------------------------------------
(* timesheet_parser.py *)

\* The except clause of _to_number: ValueError and TypeError give None
ExceptValueError(r) ==
    IF IsRaise(r) /\ r.exc \in {"ValueError", "TypeError"} THEN JNull ELSE r

\* int(float(s)) inside the try block
IntOfFloatOfStr(fl) == IF IsRaise(fl) THEN fl ELSE IntOfFloat(fl)

\* The try block of _to_number for the stripped str(value)
NumberOfText(ps) ==
    IF ~IsText(ps) THEN JNull                    \* float(repr) raises ValueError
    ELSE IF ps.s = "" THEN JNull
    ELSE ExceptValueError(IntOfFloatOfStr(FloatOfStr(ps.s)))

_to_number(value) ==
    CASE value.t = "null" -> JNull
      [] value.t = "bool" -> JInt(IF value.b THEN 1 ELSE 0)
      [] value.t = "int" -> JInt(value.n)
      [] value.t = "float" -> IntOfFloat(value)
      [] OTHER -> NumberOfText(PyStrip(PyStr(value)))

BoolOfText(ps) ==
    IF IsText(ps) /\ ps.s \in {"true", "1", "yes"} THEN JBool(TRUE)
    ELSE IF IsText(ps) /\ ps.s \in {"false", "0", "no"} THEN JBool(FALSE)
    ELSE JNull

_to_bool(value) ==
    CASE value.t = "null" -> JNull
      [] value.t = "bool" -> value
      [] OTHER -> BoolOfText(PyLower(PyStrip(PyStr(value))))

\* "key in payload" for a dict, a list or a str (any other type raises
\* TypeError: _get_timesheet_object tests the type before it uses PyIn)
PyIn(key, v) ==
    CASE v.t = "obj" -> key \in DOMAIN v.f
      [] v.t = "list" -> \E i \in 1..Len(v.items) : v.items[i] = JStr(key)
      [] v.t = "str" -> v.s = key     \* substring test: universe strings contain a key only when equal to it

\* payload[key]
PyIndex(v, key) ==
    IF v.t = "obj" THEN v.f[key] ELSE Raise("TypeError")

\* _get_timesheet_object once data = payload["data"] is known (Absent: no such key)
TimesheetObjectFrom(p, data) ==
    IF IsRaise(data) THEN data
    ELSE IF data.t = "list" /\ Len(data.items) > 0 THEN data.items[1]
    ELSE IF data.t = "obj" THEN data
    ELSE IF PyIn("result", p) THEN PyIndex(p, "result")
    ELSE IF PyIn("record", p) THEN PyIndex(p, "record")
    ELSE IF \E k \in {"Id", "StartTime", "IsInProgress"} : PyIn(k, p) THEN p
    ELSE JNull

_get_timesheet_object(p) ==
    IF ~Truthy(p) THEN JNull
    ELSE IF p.t \notin {"obj", "list", "str"} THEN Raise("TypeError")
    ELSE TimesheetObjectFrom(p, IF PyIn("data", p) THEN PyIndex(p, "data") ELSE Absent)

\* One entry of break_slots, or the exception _to_number raised
BreakSlot(slot, start, end, activity) ==
    IF IsRaise(end) THEN end
    ELSE [t |-> "BreakSlot",
          start |-> start.n,
          end |-> end,
          state |-> PyLower(PyStr(DictGetD(slot, "strState", JStr("")))),
          type_name |-> PyStr(DictGetD(slot, "strTypeName", JStr(""))),
          break_type |-> IF activity.t = "obj"
                         THEN PyStr(DictGetD(activity, "strBreakType", JStr("")))
                         ELSE [s |-> ""]]

BreakSlotFrom(slot, start) ==
    IF IsRaise(start) THEN start
    ELSE IF start = JNull THEN JNull                 \* continue
    ELSE BreakSlot(slot, start, _to_number(DictGet(slot, "intUnixEnd")),
                   DictGet(slot, "mixedActivity"))

BreakSlotOf(slot) == BreakSlotFrom(slot, _to_number(DictGet(slot, "intUnixStart")))

IsBreakType(slot) ==
    PyUpper(PyStr(DictGetD(slot, "strType", JStr("")))) = [s |-> "B"]

\* The loop over slots: the list of break slots, or the first exception
\* What one slot appends to break_slots (nothing or one BreakSlot), or an exception
SlotEntry(b) ==
    IF IsRaise(b) THEN b ELSE IF b = JNull THEN [add |-> <<>>] ELSE [add |-> <<b>>]

SlotEntries(slot) ==
    IF slot.t # "obj" THEN [add |-> <<>>]
    ELSE IF ~IsBreakType(slot) THEN [add |-> <<>>]
    ELSE SlotEntry(BreakSlotOf(slot))

RECURSIVE CollectBreakSlots(_, _, _)
CollectNext(items, i, acc, entry) ==
    IF IsRaise(entry) THEN entry ELSE CollectBreakSlots(items, i + 1, acc \o entry.add)

CollectBreakSlots(items, i, acc) ==
    IF i > Len(items) THEN [t |-> "ok", slots |-> acc]
    ELSE CollectNext(items, i, acc, SlotEntries(items[i]))

\* list.sort(key=lambda b: b.start or 0): a stable sort
SortKey(b) == IF b.start # 0 THEN b.start ELSE 0

RECURSIVE InsertStable(_, _)
InsertStable(sorted, b) ==
    IF sorted = <<>> THEN <<b>>
    ELSE IF SortKey(sorted[Len(sorted)]) <= SortKey(b) THEN Append(sorted, b)
    ELSE Append(InsertStable(SubSeq(sorted, 1, Len(sorted) - 1), b), sorted[Len(sorted)])

RECURSIVE StableSort(_, _, _)
StableSort(bs, i, acc) ==
    IF i > Len(bs) THEN acc ELSE StableSort(bs, i + 1, InsertStable(acc, bs[i]))

Last(q) == q[Len(q)]

MostRecentOf(c) ==
    IF IsRaise(c) THEN c
    ELSE IF c.slots = <<>> THEN JNull
    ELSE Last(StableSort(c.slots, 1, <<>>))

_get_most_recent_break_slot(slots) ==
    IF slots.t # "list" THEN JNull
    ELSE IF Len(slots.items) = 0 THEN JNull
    ELSE MostRecentOf(CollectBreakSlots(slots.items, 1, <<>>))

\* A test that looks at the end time alone and not at the state text
is_break_in_progress_by_end_only(break_slot) ==
    IF break_slot = JNull THEN FALSE ELSE break_slot.end = JNull

_is_break_in_progress(break_slot) ==
    IF break_slot = JNull THEN FALSE
    ELSE IF break_slot.end = JNull THEN TRUE
    ELSE IF IsText(break_slot.state)
            /\ (ContainsInProgress(break_slot.state.s) \/ ContainsStarted(break_slot.state.s))
         THEN TRUE
    ELSE FALSE

\* TimesheetAction values and the characters (ord) of each
ActionChars(action) ==
    CASE action = "clock_in" -> <<99, 108, 111, 99, 107, 95, 105, 110>>
      [] action = "clock_out" -> <<99, 108, 111, 99, 107, 95, 111, 117, 116>>
      [] action = "break_start" -> <<98, 114, 101, 97, 107, 95, 115, 116, 97, 114, 116>>
      [] action = "break_end" -> <<98, 114, 101, 97, 107, 95, 101, 110, 100>>
      [] action = "ignore" -> <<105, 103, 110, 111, 114, 101>>

\* The characters of str(n) for an integer n
RECURSIVE NatDigits(_)
NatDigits(n) ==
    IF n < 10 THEN <<48 + n>> ELSE Append(NatDigits(n \div 10), 48 + (n % 10))
IntChars(n) == IF n < 0 THEN <<45>> \o NatDigits(-n) ELSE NatDigits(n)

\* a ^ b on the low `bits` bits
RECURSIVE XorBits(_, _, _)
XorBits(a, b, bits) ==
    IF bits = 0 THEN 0
    ELSE (((a % 2) + (b % 2)) % 2) + 2 * XorBits(a \div 2, b \div 2, bits - 1)

\* A 32-bit value is kept as <<high 16 bits, low 16 bits>>.
FnvOffsetHi == 33052      \* 0x811C
FnvOffsetLo == 40389      \* 0x9DC5
FnvPrimeLow == 403        \* 0x01000193 = 2^24 + 0x193

\* h ^= ord(char); h = (h * 0x01000193) & 0xFFFFFFFF
FnvStep(h, c) ==
    LET lo1 == (h[2] \div 256) * 256 + XorBits(h[2] % 256, c, 8)
        t == lo1 * FnvPrimeLow
    IN  << ((h[1] * FnvPrimeLow) + (t \div 65536) + ((lo1 % 256) * 256)) % 65536,
           t % 65536 >>

RECURSIVE FnvFold(_, _, _)
FnvFold(h, chars, i) ==
    IF i > Len(chars) THEN h ELSE FnvFold(FnvStep(h, chars[i]), chars, i + 1)

\* format(h, "08x"): the eight hexadecimal digits
Hex8(h) ==
    << h[1] \div 4096, (h[1] \div 256) % 16, (h[1] \div 16) % 16, h[1] % 16,
       h[2] \div 4096, (h[2] \div 256) % 16, (h[2] \div 16) % 16, h[2] % 16 >>

_fnv1a_hash(chars) == Hex8(FnvFold(<<FnvOffsetHi, FnvOffsetLo>>, chars, 1))

PrefixOf(action) ==
    CASE action = "clock_in" -> "tci"
      [] action = "clock_out" -> "tco"
      [] action = "break_start" -> "tbs"
      [] action = "break_end" -> "tbe"
      [] OTHER -> "evt"

\* f"{prefix}_{hash_val}" kept as its two parts
_generate_dedupe_key(timesheet_id, action, event_unix) ==
    [t |-> "key",
     prefix |-> PrefixOf(action),
     hex |-> _fnv1a_hash(IntChars(timesheet_id) \o <<124>> \o ActionChars(action)
                          \o <<124>> \o IntChars(event_unix))]

\* DesiredDndStatus values
TAKE_ALL_CALLS == "TakeAllCalls"
DO_NOT_ACCEPT_DEPARTMENT_CALLS == "DoNotAcceptDepartmentCalls"

Reason(text) == [text |-> text]

\* ParsedTimesheetEvent: the fields of the dataclass, no others
ParsedTimesheetEvent(action, desired_dnd_status, timesheet_id, employee_id, event_unix, dedupe_key, reason, topic, debug_break) ==
    [action |-> action,
     desired_dnd_status |-> desired_dnd_status,
     timesheet_id |-> timesheet_id,
     employee_id |-> employee_id,
     event_unix |-> event_unix,
     dedupe_key |-> dedupe_key,
     reason |-> reason,
     topic |-> topic,
     debug_break |-> debug_break]

\* The first exception among the values computed in order, or JNull
RECURSIVE FirstRaise(_, _)
FirstRaise(vals, i) ==
    IF i > Len(vals) THEN JNull
    ELSE IF IsRaise(vals[i]) THEN vals[i]
    ELSE FirstRaise(vals, i + 1)

Abs(x) == IF x < 0 THEN -x ELSE x

BreakEndWindow == 180

IgnoreResult(debug_break) ==
    [action |-> "ignore", desired_dnd_status |-> JNull,
     reason |-> Reason("No actionable event detected"),
     debug_break |-> debug_break]

\* "abs(webhook_ts - latest_break_slot.end) if webhook_ts else None" and the
\* test "seconds_since_end is not None and seconds_since_end <= 180"
BreakEndedRecently(webhook_ts, break_end) ==
    Truthy(webhook_ts) /\ Abs(webhook_ts.n - break_end.n) <= BreakEndWindow

\* Steps 1) and 2) of the classification:
\* [action, desired_dnd_status, reason, debug_break]
ClockOutOrBreak(is_in_progress, end_time, webhook_ts, latest_break_slot) ==
    IF is_in_progress = JBool(FALSE) /\ Truthy(end_time)
    THEN [action |-> "clock_out",
          desired_dnd_status |-> JStr(DO_NOT_ACCEPT_DEPARTMENT_CALLS),
          reason |-> Reason("IsInProgress=false and EndTime present"),
          debug_break |-> JNull]
    ELSE IF is_in_progress = JBool(TRUE) /\ latest_break_slot # JNull
    THEN IF _is_break_in_progress(latest_break_slot)
         THEN [action |-> "break_start",
               desired_dnd_status |-> JStr(DO_NOT_ACCEPT_DEPARTMENT_CALLS),
               reason |-> Reason("Most recent break slot is in progress"),
               debug_break |-> latest_break_slot]
         ELSE IF Truthy(latest_break_slot.end)
                 /\ BreakEndedRecently(webhook_ts, latest_break_slot.end)
         THEN [action |-> "break_end",
               desired_dnd_status |-> JStr(TAKE_ALL_CALLS),
               reason |-> [text |-> "Most recent break ended recently (within {seconds_since_end}s)",
                           seconds_since_end |-> Abs(webhook_ts.n - latest_break_slot.end.n)],
               debug_break |-> latest_break_slot]
         ELSE IgnoreResult(latest_break_slot)
    ELSE IgnoreResult(JNull)

IsInsert(topic) == PyLower(topic) = [s |-> "timesheet.insert"]

CreatedEqualsModified(created, modified) ==
    Truthy(created) /\ Truthy(modified) /\ PyStr(created) = PyStr(modified)

\* A clock-in branch that sets the action and leaves desired_dnd_status as it was
ClockInWithoutPresence(sofar, is_in_progress, start_time, created, modified, topic) ==
    IF sofar.action = "ignore" /\ is_in_progress = JBool(TRUE) /\ Truthy(start_time)
       /\ (IsInsert(topic) \/ CreatedEqualsModified(created, modified))
    THEN [sofar EXCEPT !.action = "clock_in"]
    ELSE sofar

\* Step 3) of the classification, given the outcome of steps 1) and 2)
ClockIn(sofar, is_in_progress, start_time, created, modified, topic) ==
    IF sofar.action = "ignore" /\ is_in_progress = JBool(TRUE) /\ Truthy(start_time)
       /\ (IsInsert(topic) \/ CreatedEqualsModified(created, modified))
    THEN [action |-> "clock_in",
          desired_dnd_status |-> JStr(TAKE_ALL_CALLS),
          reason |-> IF IsInsert(topic)
                     THEN Reason("Timesheet.Insert with IsInProgress=true")
                     ELSE Reason("Created equals Modified (creation event) with IsInProgress=true"),
          debug_break |-> sofar.debug_break]
    ELSE sofar

Classify(is_in_progress, start_time, end_time, created, modified, webhook_ts, topic, latest_break_slot) ==
    ClockIn(ClockOutOrBreak(is_in_progress, end_time, webhook_ts, latest_break_slot),
            is_in_progress, start_time, created, modified, topic)

\* "Determine event timestamp for dedupe"
EventUnix(action, start_time, end_time, latest_break_slot) ==
    CASE action = "clock_in" -> start_time
      [] action = "clock_out" -> end_time
      [] action = "break_start" /\ latest_break_slot # JNull -> JInt(latest_break_slot.start)
      [] action = "break_end" /\ latest_break_slot # JNull -> latest_break_slot.end
      [] OTHER -> JNull

\* "Generate dedupe key"
DedupeKeyFor(timesheet_id, action, event_unix) ==
    IF Truthy(timesheet_id) /\ action # "ignore" /\ Truthy(event_unix)
    THEN _generate_dedupe_key(timesheet_id.n, action, event_unix.n)
    ELSE JNull

\* The returned event, once classification c and event_unix are known
BuildEvent(c, timesheet_id, employee_id, event_unix, topic) ==
    ParsedTimesheetEvent(c.action, c.desired_dnd_status, timesheet_id, employee_id,
                         event_unix, DedupeKeyFor(timesheet_id, c.action, event_unix),
                         c.reason, IF topic = [s |-> ""] THEN JNull ELSE topic,
                         c.debug_break)

Classified(c, timesheet_id, employee_id, start_time, end_time, topic, latest_break_slot) ==
    BuildEvent(c, timesheet_id, employee_id,
               EventUnix(c.action, start_time, end_time, latest_break_slot), topic)

\* parse_timesheet_webhook after the coercions (each may have raised)
ParseCoerced(timesheet_id, employee_id, is_in_progress, start_time, end_time, created, modified, webhook_ts, topic, latest_break_slot, raised) ==
    IF raised # JNull THEN raised
    ELSE Classified(Classify(is_in_progress, start_time, end_time, created, modified,
                             webhook_ts, topic, latest_break_slot),
                    timesheet_id, employee_id, start_time, end_time, topic,
                    latest_break_slot)

ParseFields(timesheet_id, employee_id, is_in_progress, start_time, end_time, created, modified, webhook_ts, topic, latest_break_slot) ==
    ParseCoerced(timesheet_id, employee_id, is_in_progress, start_time, end_time,
                 created, modified, webhook_ts, topic, latest_break_slot,
                 FirstRaise(<<timesheet_id, employee_id, start_time, end_time,
                              webhook_ts, latest_break_slot>>, 1))

\* parse_timesheet_webhook once ts_obj is known
ParseObject(p, ts_obj) ==
    IF IsRaise(ts_obj) THEN ts_obj
    ELSE IF ~Truthy(ts_obj)
    THEN ParsedTimesheetEvent("ignore", JNull, JNull, JNull, JNull, JNull,
                              Reason("No timesheet object found in payload"),
                              JNull, JNull)
    ELSE IF ts_obj.t # "obj" THEN Raise("AttributeError")      \* ts_obj.get
    ELSE ParseFields(_to_number(DictGet(ts_obj, "Id")),
                     _to_number(DictGet(ts_obj, "Employee")),
                     _to_bool(DictGet(ts_obj, "IsInProgress")),
                     _to_number(DictGet(ts_obj, "StartTime")),
                     _to_number(DictGet(ts_obj, "EndTime")),
                     DictGet(ts_obj, "Created"),
                     DictGet(ts_obj, "Modified"),
                     _to_number(DictGet(p, "timestamp")),
                     PyStrip(PyStr(DictGetD(p, "topic", JStr("")))),
                     _get_most_recent_break_slot(DictGet(ts_obj, "Slots")))

parse_timesheet_webhook(p) == ParseObject(p, _get_timesheet_object(p))

----------------------------------------------------------------------------
(* Inputs of the parser: webhook payloads *)

BreakSlotObj(type, start, end, state) ==
    MkObj([strType |-> type, intUnixStart |-> start, intUnixEnd |-> end,
           strState |-> state])
B(start, end, state) == BreakSlotObj(JStr("B"), start, end, JStr(state))

SlotsChoices ==
    { Absent,
      JList(<<>>),
      JList(<<B(JInt(1000), JNull, "")>>),
      JList(<<B(JInt(1000), JInt(1900), "Finished")>>),
      JList(<<B(JInt(1000), JInt(1900), "In Progress")>>),
      JList(<<B(JInt(500), JInt(600), "Finished"), B(JInt(1000), Absent, "Break Started")>>),
      JList(<<B(JInt(1000), JNull, ""), B(JInt(500), JInt(600), "Finished")>>),
      JList(<<BreakSlotObj(JStr("S"), JInt(3000), JNull, JStr("")),
              B(JInt(1000), JInt(1900), "Finished")>>),
      JList(<<B(JInt(1000), JInt(1900), "Finished"), B(JInt(1000), JNull, "")>>),
      JList(<<B(JInt(0), JNull, "")>>),
      JList(<<B(JInt(50), JInt(100), "Finished")>>),
      JList(<<B(JInt(50), JInt(0), "Finished")>>),
      JList(<<JStr("abc"), BreakSlotObj(JStr("b"), JStr(" 100 "), JInt(1900), JStr("Finished"))>>) }

Ids == {Absent, JInt(0), JInt(100)}
InProgressChoices == {Absent, JBool(TRUE), JBool(FALSE), JStr(" Yes "), JInt(0)}
StartTimes == {Absent, JInt(0), JInt(1000)}
EndTimes == {Absent, JInt(0), JInt(2000)}
CreatedModified ==
    { <<JStr("t1"), JStr("t1")>>, <<JStr("t1"), JStr("t2")>>,
      <<JStr(""), JStr("")>>, <<Absent, Absent>> }
Topics == {JStr("Timesheet.Update"), JStr(" timesheet.insert ")}
Timestamps == {Absent, JInt(0), JInt(2080), JInt(2081)}

\* The record is the payload itself, with the webhook metadata beside it
RecordPayloads ==
    { MkObj([Id |-> id, Employee |-> JInt(5), IsInProgress |-> iip,
             StartTime |-> st, EndTime |-> et, Created |-> cm[1], Modified |-> cm[2],
             Slots |-> sl, timestamp |-> ts, topic |-> tp]) :
        id \in Ids, iip \in InProgressChoices, st \in StartTimes, et \in EndTimes,
        cm \in CreatedModified, sl \in SlotsChoices, ts \in Timestamps, tp \in Topics }

JunkValues ==
    { JNull, JBool(TRUE), JBool(FALSE), JInt(0), JInt(5), JFloat(15), JNaN, JInf,
      JStr(""), JStr("abc"), JStr("data"), JStr("Id"), JStr("1e999"), JStr("nan"),
      JStr(" 100 "), JStr("7.9"),
      JList(<<>>), JList(<<JInt(1)>>), JList(<<JStr("data")>>), JList(<<JStr("Id")>>),
      EmptyObj }

BaseRecord ==
    [Id |-> JInt(100), Employee |-> JInt(5), IsInProgress |-> JBool(TRUE),
     StartTime |-> JInt(1000), Created |-> JStr("t1"), Modified |-> JStr("t1")]

OneField(k, v) == [x \in {k} |-> v]

ShapePayloads ==
    JunkValues
    \cup { JObj(OneField(w, j)) : w \in {"data", "result", "record"},
                                  j \in JunkValues \cup {JObj(BaseRecord)} }
    \cup { JObj(OneField("data", JList(<<j>>))) : j \in JunkValues \cup {JObj(BaseRecord)} }
    \cup { JObj(OneField(k, j) @@ BaseRecord) :
             k \in {"Id", "Employee", "IsInProgress", "StartTime", "EndTime", "Created",
                    "Modified", "Slots", "timestamp", "topic"},
             j \in JunkValues }
    \cup { JObj(OneField("Slots", JList(<<JObj(OneField(k, j)
                                              @@ [strType |-> JStr("B"),
                                                  intUnixStart |-> JInt(1000)])>>))
                @@ BaseRecord) :
             k \in {"strType", "intUnixStart", "intUnixEnd", "strState", "mixedActivity"},
             j \in JunkValues }

Payloads == RecordPayloads \cup ShapePayloads

----------------------------------------------------------------------------
(* config.py and redis_client.py: the dedupe lock over the shared Redis.   *)
(* Redis executes each command atomically; an entry whose expiry time has  *)
(* been reached does not exist.                                            *)

dedupe_lock_ttl == 30
dedupe_completed_ttl == 3600

\* key = f"deputy:dedupe:{dedupe_key}"
StoreKey(dedupe_key) == [ns |-> "deputy:dedupe:", key |-> dedupe_key]

Exists(st, key, t) == key \in DOMAIN st /\ t < st[key].expire_at

Put(st, key, value, ex, t) ==
    [k \in DOMAIN st \cup {key} |->
        IF k = key THEN [value |-> value, expire_at |-> t + ex] ELSE st[k]]

\* A SET without NX: the entry is written whether or not it exists
acquire_without_nx(st, dedupe_key, t) ==
    [store |-> Put(st, StoreKey(dedupe_key), "processing", dedupe_lock_ttl, t),
     reply |-> TRUE]

\* r.set(key, "processing", nx=True, ex=settings.dedupe_lock_ttl) executed at
\* time t, with the truth value of its reply
acquire_dedupe_lock(st, dedupe_key, t) ==
    IF Exists(st, StoreKey(dedupe_key), t)
    THEN [store |-> st, reply |-> FALSE]
    ELSE [store |-> Put(st, StoreKey(dedupe_key), "processing", dedupe_lock_ttl, t),
          reply |-> TRUE]

\* A completion that keeps the short TTL of the processing lock
mark_completed_with_lock_ttl(st, dedupe_key, t) ==
    Put(st, StoreKey(dedupe_key), "completed", dedupe_lock_ttl, t)

\* r.set(key, "completed", ex=settings.dedupe_completed_ttl) executed at time t
mark_dedupe_completed(st, dedupe_key, t) ==
    Put(st, StoreKey(dedupe_key), "completed", dedupe_completed_ttl, t)

\* Time passes; Redis drops the entries whose TTL has run out.
TickSteps == {1, dedupe_lock_ttl, dedupe_completed_ttl}
MaxTicks == 2

Expire(st, t) == [k \in {x \in DOMAIN st : t < st[x].expire_at} |-> st[k]]

Tick(dt) ==
    /\ ticks < MaxTicks
    /\ ticks' = ticks + 1
    /\ now' = now + dt
    /\ store' = Expire(store, now + dt)
    /\ UNCHANGED <<broadcastVars, parserVars, pipelineVars, lockVars, workflowVars>>

InitStore ==
    /\ now = 0
    /\ ticks = 0
    /\ store = <<>>

----------------------------------------------------------------------------
(* Clients of redis_client.py: any number of callers, on any replica, call  *)
(* acquire_dedupe_lock and mark_dedupe_completed; a call is issued, then    *)
(* Redis executes its command and the call returns.                         *)

MaxCalls == 3
Calls == 1..MaxCalls

LockKeys == { _generate_dedupe_key(100, "clock_in", 1000) }

IdleCall == [pc |-> "idle"]

InitLockClients ==
    /\ calls = [c \in Calls |-> IdleCall]
    /\ lclock = 0

Issue(c, op, k) ==
    /\ calls[c].pc = "idle"
    /\ \A b \in Calls : b < c => calls[b].pc # "idle"
    /\ calls' = [calls EXCEPT ![c] = [pc |-> "sent", op |-> op, key |-> k, issued |-> lclock]]
    /\ lclock' = lclock + 1
    /\ UNCHANGED <<broadcastVars, parserVars, storeVars, pipelineVars, workflowVars>>

Executed(c, r) ==
    /\ store' = r.store
    /\ calls' = [calls EXCEPT ![c] =
           [pc |-> "returned", op |-> calls[c].op, key |-> calls[c].key,
            issued |-> calls[c].issued, executed |-> lclock, at |-> now,
            absent_before |-> ~Exists(store, StoreKey(calls[c].key), now),
            ret |-> IF calls[c].op = "acquire" THEN JBool(r.reply) ELSE JNull]]

\* Redis executes the SET of call c; the call returns True / False / None
Execute(c) ==
    /\ calls[c].pc = "sent"
    /\ Executed(c, IF calls[c].op = "acquire"
                   THEN acquire_dedupe_lock(store, calls[c].key, now)
                   ELSE [store |-> mark_dedupe_completed(store, calls[c].key, now),
                         reply |-> FALSE])
    /\ lclock' = lclock + 1
    /\ UNCHANGED <<broadcastVars, parserVars, now, ticks, pipelineVars, workflowVars>>

----------------------------------------------------------------------------
(* main.py of deputy-service: the webhook handler and the dispatcher.       *)
(* Deliveries may be handled by any replica: they share only the store.     *)

MaxDeliveries == 2
Deliveries == 1..MaxDeliveries

\* A request body that is not JSON
InvalidJson == [t |-> "invalid"]

ClockInBody == JObj(BaseRecord)
ClockOutBody ==
    JObj([Id |-> JInt(100), Employee |-> JInt(5), IsInProgress |-> JBool(FALSE),
          EndTime |-> JInt(2000)])
NoKeyBody ==
    JObj([Employee |-> JInt(5), IsInProgress |-> JBool(FALSE), EndTime |-> JInt(2000)])

\* Employee 7 has no entry in the user mappings, employee 6 an entry without extension
Bodies ==
    {InvalidJson, EmptyObj, JInt(5), ClockInBody, ClockOutBody, NoKeyBody,
     JObj([Id |-> JInt(100), Employee |-> JInt(7), IsInProgress |-> JBool(FALSE),
           EndTime |-> JInt(2000)]),
     JObj([Id |-> JInt(100), Employee |-> JInt(6), IsInProgress |-> JBool(FALSE),
           EndTime |-> JInt(2000)])}

\* shared/user_mappings.json as loaded by _load_mappings
UserMappings ==
    << [deputy_id |-> "5", name |-> "Employee 5", ringcentral_extension_id |-> "ext-5"],
       [deputy_id |-> "6", name |-> "Employee 6"] >>

find_by_deputy_id(deputy_id) ==
    IF \E i \in 1..Len(UserMappings) : [s |-> UserMappings[i].deputy_id] = deputy_id
    THEN UserMappings[CHOOSE i \in 1..Len(UserMappings) :
                        /\ [s |-> UserMappings[i].deputy_id] = deputy_id
                        /\ \A j \in 1..(i - 1) : [s |-> UserMappings[j].deputy_id] # deputy_id]
    ELSE JNull

\* date.today().strftime("%Y-%m-%d")
Today == "2026-11-01"

is_today(timesheet_date) == Truthy(timesheet_date) /\ timesheet_date = JStr(Today)

\* getattr: an attribute that is not a field of the object raises AttributeError
HasAttr(obj, name) == name \in DOMAIN obj

clock_status_map(action) ==
    CASE action = "clock_in" -> JStr("clocked_in")
      [] action = "clock_out" -> JStr("clocked_out")
      [] action = "break_start" -> JStr("on_break")
      [] action = "break_end" -> JStr("clocked_in")
      [] OTHER -> JNull

IdleReq == [pc |-> "idle"]
NoTask == [pc |-> "none"]

InitPipeline ==
    /\ req = [d \in Deliveries |-> IdleReq]
    /\ task = [d \in Deliveries |-> NoTask]
    /\ dnd_calls = [d \in Deliveries |-> 0]
    /\ dashboard_calls = [d \in Deliveries |-> 0]
    /\ complete_calls = [d \in Deliveries |-> 0]

Response(code, content) == [status_code |-> code, content |-> content]

Responded(d, body, event, response) ==
    [pc |-> "responded", body |-> body, event |-> event, arrived_at |-> now,
     lock_acquired |-> JNull, acquired_at |-> JNull, response |-> response]

\* A handler that asks the store for admission without testing the dedupe key
admit_every_event(d, body, event) ==
    IF ~IsRaise(event) /\ event.action # "ignore"
    THEN [req |-> [Responded(d, body, event, JNull) EXCEPT !.pc = "acquire_sent"],
          task |-> NoTask]
    ELSE [req |-> Responded(d, body, event, Response(200, [status |-> "ignored"])),
          task |-> NoTask]

\* handle_timesheet_webhook from the parsed event to the response or to the
\* await on the store: [req, task] of the delivery
Handle(d, body, event) ==
    IF body = InvalidJson
    THEN [req |-> Responded(d, body, event, Response(400, [error |-> "Invalid JSON payload"])),
          task |-> NoTask]
    ELSE IF IsRaise(event)                      \* an unhandled exception
    THEN [req |-> Responded(d, body, event, Response(500, [error |-> "Internal Server Error"])),
          task |-> NoTask]
    ELSE IF event.action = "ignore"
    THEN [req |-> Responded(d, body, event,
                            Response(200, [status |-> "ignored", reason |-> event.reason])),
          task |-> NoTask]
    ELSE IF ~Truthy(event.dedupe_key)
    THEN [req |-> Responded(d, body, event,
                            Response(200, [status |-> "accepted", action |-> event.action,
                                           warning |-> "No dedupe key generated"])),
          task |-> [pc |-> "start"]]
    ELSE [req |-> [Responded(d, body, event, JNull) EXCEPT !.pc = "acquire_sent"],
          task |-> NoTask]

Received(d, h) ==
    /\ req' = [req EXCEPT ![d] = h.req]
    /\ task' = [task EXCEPT ![d] = h.task]

\* handle_timesheet_webhook up to its first await on the store
Receive(d, body) ==
    /\ req[d].pc = "idle"
    /\ \A e \in Deliveries : e < d => req[e].pc # "idle"
    /\ Received(d, Handle(d, body, IF body = InvalidJson THEN Raise("JSONDecodeError")
                                   ELSE parse_timesheet_webhook(body)))
    /\ UNCHANGED <<broadcastVars, parserVars, storeVars, dnd_calls, dashboard_calls, complete_calls, lockVars, workflowVars>>

Acquired(d, r) ==
    /\ store' = r.store
    /\ req' = [req EXCEPT ![d] = [@ EXCEPT !.pc = "acquire_done",
                                            !.lock_acquired = JBool(r.reply),
                                            !.acquired_at = JInt(now)]]

\* Redis executes the SET NX issued by acquire_dedupe_lock for delivery d
AcquireExecute(d) ==
    /\ req[d].pc = "acquire_sent"
    /\ Acquired(d, acquire_dedupe_lock(store, req[d].event.dedupe_key, now))
    /\ UNCHANGED <<broadcastVars, parserVars, now, ticks, task, dnd_calls, dashboard_calls,
                   complete_calls, lockVars, workflowVars>>

\* The store cannot be reached: the awaited r.set raises, acquire_dedupe_lock
\* has no handler for it and the exception reaches handle_timesheet_webhook
store_unreachable(dedupe_key) == Raise("ConnectionError")

\* Redis cannot be reached when acquire_dedupe_lock of delivery d runs
AcquireFails(d) ==
    /\ req[d].pc = "acquire_sent"
    /\ req' = [req EXCEPT ![d] = [@ EXCEPT !.pc = "acquire_done",
                    !.lock_acquired = store_unreachable(req[d].event.dedupe_key)]]
    /\ UNCHANGED <<broadcastVars, parserVars, storeVars, task, dnd_calls, dashboard_calls,
                   complete_calls, lockVars, workflowVars>>

\* handle_timesheet_webhook after acquire_dedupe_lock returned or raised; an
\* exception leaves the handler, which has no try around the call, and the
\* framework answers 500
Respond(d) ==
    /\ req[d].pc = "acquire_done"
    /\ IF IsRaise(req[d].lock_acquired)
       THEN /\ req' = [req EXCEPT ![d] = [@ EXCEPT !.pc = "responded", !.response =
                      Response(500, [error |-> "Internal Server Error"])]]
            /\ UNCHANGED task
       ELSE IF req[d].lock_acquired = JBool(FALSE)
       THEN /\ req' = [req EXCEPT ![d] = [@ EXCEPT !.pc = "responded", !.response =
                      Response(200, [status |-> "duplicate", action |-> req[d].event.action,
                                     dedupe_key |-> req[d].event.dedupe_key])]]
            /\ UNCHANGED task
       ELSE /\ req' = [req EXCEPT ![d] = [@ EXCEPT !.pc = "responded", !.response =
                      Response(200, [status |-> "accepted", action |-> req[d].event.action,
                                     employee_id |-> req[d].event.employee_id,
                                     dedupe_key |-> req[d].event.dedupe_key])]]
            /\ task' = [task EXCEPT ![d] = [pc |-> "start"]]
    /\ UNCHANGED <<broadcastVars, parserVars, storeVars, dnd_calls, dashboard_calls, complete_calls, lockVars, workflowVars>>

\* Outcomes of an awaited downstream POST
HttpOutcomes == {"200", "non200", "exception"}

\* One step of the dispatcher: the new task state and the calls it made
DispatchStep(tk, dnd, dashboard, completes) ==
    [task |-> tk, dnd |-> dnd, dashboard |-> dashboard, completes |-> completes]

\* "if event.dedupe_key: await mark_dedupe_completed(event.dedupe_key)" and
\* return: the SET travels to Redis
CompleteAndReturn(event) ==
    IF Truthy(event.dedupe_key)
    THEN DispatchStep([pc |-> "complete_sent"], 0, 0, 1)
    ELSE DispatchStep([pc |-> "done"], 0, 0, 0)

\* user.get(name) for an entry of the user mappings
UserGet(user, name) == IF name \in DOMAIN user THEN JStr(user[name]) ELSE JNull

\* process_timesheet_event from the employee lookup on
DispatchUser(event, user) ==
    IF user = JNull THEN CompleteAndReturn(event)
    ELSE IF ~Truthy(UserGet(user, "ringcentral_extension_id")) THEN CompleteAndReturn(event)
    ELSE IF Truthy(event.desired_dnd_status)
    THEN DispatchStep([pc |-> "dnd_sent"], 1, 0, 0)
    ELSE CompleteAndReturn(event)

\* One step of process_timesheet_event(event), from one await to the next
process_timesheet_event(t, event, outcome) ==
    CASE t.pc = "start" ->
           \* the logger.info f-string reads event.timesheet_date
           IF ~HasAttr(event, "timesheet_date")
           THEN DispatchStep([pc |-> "raised", exc |-> "AttributeError"], 0, 0, 0)
           ELSE IF ~is_today(event.timesheet_date) THEN CompleteAndReturn(event)
           ELSE DispatchUser(event, find_by_deputy_id(PyStr(event.employee_id)))
      [] t.pc = "dnd_sent" ->
           \* update_ringcentral_dnd returned (True iff outcome = "200"); then the
           \* dashboard is notified
           IF clock_status_map(event.action) # JNull
           THEN DispatchStep([pc |-> "dashboard_sent", dnd_success |-> (outcome = "200")],
                             0, 1, 0)
           ELSE CompleteAndReturn(event)
      [] t.pc = "dashboard_sent" -> CompleteAndReturn(event)
      [] t.pc = "complete_sent" -> DispatchStep([pc |-> "done"], 0, 0, 0)

Dispatched(d, r) ==
    /\ task' = [task EXCEPT ![d] = r.task]
    /\ dnd_calls' = [dnd_calls EXCEPT ![d] = @ + r.dnd]
    /\ dashboard_calls' = [dashboard_calls EXCEPT ![d] = @ + r.dashboard]
    /\ complete_calls' = [complete_calls EXCEPT ![d] = @ + r.completes]

\* The background task of delivery d runs to its next await; when the SET of
\* mark_dedupe_completed is in flight, Redis executes it
ProcessStep(d) ==
    /\ task[d].pc \in {"start", "dnd_sent", "dashboard_sent", "complete_sent"}
    /\ \E outcome \in HttpOutcomes :
         Dispatched(d, process_timesheet_event(task[d], req[d].event, outcome))
    /\ store' = IF task[d].pc = "complete_sent"
                THEN mark_dedupe_completed(store, req[d].event.dedupe_key, now)
                ELSE store
    /\ UNCHANGED <<broadcastVars, parserVars, now, ticks, req, lockVars, workflowVars>>

----------------------------------------------------------------------------
(* Employee status broadcaster of dashboard-service: EmployeeStatusManager  *)
(* and the endpoints in front of it. The service runs on one asyncio event  *)
(* loop: code between two suspension points is one step. The bodies of all  *)
(* `async with self._lock` blocks hold no await, so the lock is always free *)
(* when a coroutine asks for it and acquiring it never suspends.            *)

MaxUpdates == 2
UpdateCalls == 1..MaxUpdates
\* Two client connections
Sockets == {1, 2}

\* _api_keys after startup, and the key of the internal endpoint
api_keys == {"desktop-key"}
internal_api_key == "internal-service-key"

\* The X-API-Key header and the api_key query parameter of the REST reads
\* that are made: one with an unknown key in the query, one with an empty
\* header and a configured key in the query
Credentials ==
    { <<JNull, JStr("other-key")>>, <<JStr(""), JStr("desktop-key")>> }

\* The employee whose status is written; "lunch" is no ClockStatus
EmployeeIds == {"5"}
ClockStatus == {"clocked_in", "clocked_out", "on_break", "unknown"}
RequestedStatuses == {"on_break", "lunch"}

\* A check that takes any string for a key
accept_any_key(key) == key.t = "str"

validate_api_key(key) == key.t = "str" /\ key.s \in api_keys

EmployeeStatus(employee_id, name, clock_status, last_updated, extension) ==
    [employee_id |-> employee_id, name |-> name, clock_status |-> clock_status,
     last_updated |-> last_updated, ringcentral_extension_id |-> extension]

\* The message of one update_status call; `call` tells the messages of two
\* calls with equal arguments apart
StatusUpdate(call, employee_id, name, clock_status, timestamp) ==
    [type |-> "status_update", employee_id |-> employee_id, name |-> name,
     clock_status |-> clock_status, timestamp |-> timestamp, call |-> call]

AllStatusMessage(employees, timestamp) ==
    [type |-> "all_statuses", employees |-> employees, timestamp |-> timestamp]

\* A table that keeps the record an employee already has
upsert_keeping_first(st, record) ==
    [e \in DOMAIN st \cup {record.employee_id} |->
        IF e \in DOMAIN st THEN st[e] ELSE record]

\* self._statuses[employee_id] = record
Upsert(st, record) ==
    [e \in DOMAIN st \cup {record.employee_id} |->
        IF e = record.employee_id THEN record ELSE st[e]]

\* The extension the callers look up in the shared user mappings
ExtensionOf(employee_id) ==
    IF find_by_deputy_id([s |-> employee_id]) = JNull THEN JNull
    ELSE UserGet(find_by_deputy_id([s |-> employee_id]), "ringcentral_extension_id")

\* A registration that forgets the connection
register_nothing(conns, websocket) == conns

register_connection(conns, websocket) == conns \cup {websocket}
unregister_connection(conns, websocket) == conns \ {websocket}

\* websocket.send_text(message) on a connection whose peer is still there;
\* `received` holds the status messages that reached the client, in order
Deliver(socks, websocket, message) ==
    [socks EXCEPT ![websocket].received = Append(@, message)]

InitBroadcaster ==
    /\ statuses = <<>>
    /\ connections = {}
    /\ sockets = [c \in Sockets |->
                    [pc |-> "idle", api_key |-> JNull, broken |-> FALSE, received |-> <<>>]]
    /\ updates = [u \in UpdateCalls |->
                    [pc |-> "idle", key |-> JNull, status_code |-> 0, message |-> JNull,
                     targets |-> {}, pending |-> {}, failed |-> {}]]
    /\ last_init = [op |-> "none"]

\* employee_status_websocket up to `await websocket.accept()`; connections
\* are numbered in the order in which they arrive
Connect(c, api_key) ==
    /\ sockets[c].pc = "idle"
    /\ \A b \in Sockets : b < c => sockets[b].pc # "idle"
    /\ sockets' = [sockets EXCEPT
                     ![c].pc = IF validate_api_key(api_key) THEN "accepting" ELSE "rejected",
                     ![c].api_key = api_key]
    /\ UNCHANGED <<statuses, connections, updates, last_init>>
    /\ UNCHANGED <<parserVars, storeVars, pipelineVars, lockVars, workflowVars>>

\* A subscribe that sends no snapshot
skip_snapshot(socks, websocket, st, t) == socks

\* send_all_statuses: a failed send is logged, nothing else
send_all_statuses(socks, websocket, st, t) ==
    IF socks[websocket].broken THEN socks
    ELSE Deliver(socks, websocket, AllStatusMessage(st, t))

\* employee_status_websocket from the return of accept() to the first
\* receive_text(): register_connection, then send_all_statuses
Subscribe(c) ==
    /\ sockets[c].pc = "accepting"
    /\ connections' = register_connection(connections, c)
    /\ sockets' = [send_all_statuses(sockets, c, statuses, now) EXCEPT ![c].pc = "open"]
    /\ UNCHANGED <<statuses, updates, last_init>>
    /\ UNCHANGED <<parserVars, storeVars, pipelineVars, lockVars, workflowVars>>

\* The client goes away: from now on every send and receive on the
\* connection raises
Break(c) ==
    /\ sockets[c].pc \in {"accepting", "open"}
    /\ ~sockets[c].broken
    /\ sockets' = [sockets EXCEPT ![c].broken = TRUE]
    /\ UNCHANGED <<statuses, connections, updates, last_init>>
    /\ UNCHANGED <<parserVars, storeVars, pipelineVars, lockVars, workflowVars>>

\* The receive loop answers "ping" with a pong, which is no status message
\* and is not recorded in `received`
Ping(c) ==
    /\ sockets[c].pc = "open"
    /\ ~sockets[c].broken
    /\ UNCHANGED vars

\* receive_text() raises on a connection whose client went away; the
\* handler's finally block unregisters it
Disconnected(c) ==
    /\ sockets[c].pc = "open"
    /\ sockets[c].broken
    /\ connections' = unregister_connection(connections, c)
    /\ sockets' = [sockets EXCEPT ![c].pc = "closed"]
    /\ UNCHANGED <<statuses, updates, last_init>>
    /\ UNCHANGED <<parserVars, storeVars, pipelineVars, lockVars, workflowVars>>

\* update_employee_status with update_status and _broadcast, up to the
\* gather: a call without the internal key (422 without the header) or with
\* an unknown clock_status is refused; otherwise the record is written, the
\* registry is copied and the call returns if the copy is empty. Calls are
\* numbered in the order in which they arrive, and the clock has advanced
\* when the next update_status reads it.
UpdateStatus(u, key, employee_id, name, clock_status) ==
    /\ updates[u].pc = "idle"
    /\ \A v \in UpdateCalls : v < u => updates[v].pc # "idle"
    /\ IF key # JStr(internal_api_key) \/ clock_status \notin ClockStatus
       THEN /\ updates' = [updates EXCEPT
                             ![u].pc = "refused", ![u].key = key,
                             ![u].status_code = IF key = JNull THEN 422
                                                 ELSE IF key # JStr(internal_api_key) THEN 401
                                                 ELSE 400]
            /\ UNCHANGED <<statuses, now>>
       ELSE /\ statuses' = Upsert(statuses, EmployeeStatus(employee_id, name, clock_status, now, ExtensionOf(employee_id)))
            /\ now' = now + 1
            /\ updates' = [updates EXCEPT
                             ![u].pc = IF connections = {} THEN "done" ELSE "sending",
                             ![u].key = key,
                             ![u].status_code = IF connections = {} THEN 200 ELSE 0,
                             ![u].message = StatusUpdate(u, employee_id, name, clock_status, now),
                             ![u].targets = connections,
                             ![u].pending = connections]
    /\ UNCHANGED <<connections, sockets, last_init>>
    /\ UNCHANGED <<parserVars, ticks, store, pipelineVars, lockVars, workflowVars>>

\* A gather that gives up at the first failed send
abort_on_failed_send(call, websocket, failed) ==
    IF failed
    THEN [call EXCEPT !.pending = {}, !.failed = @ \cup {websocket}, !.pc = "done",
                      !.status_code = 500]
    ELSE [call EXCEPT !.pending = @ \ {websocket},
                      !.pc = IF call.pending \ {websocket} = {} THEN "done" ELSE "sending",
                      !.status_code = IF call.pending \ {websocket} = {} THEN 200 ELSE 0]

\* The gather after one _send_to_client task has ended: return_exceptions
\* and the task's own try/except keep the other tasks going
AfterSend(call, websocket, failed) ==
    [call EXCEPT !.pending = @ \ {websocket},
                 !.failed = IF failed THEN @ \cup {websocket} ELSE @,
                 !.pc = IF call.pending \ {websocket} = {} THEN "done" ELSE "sending",
                 !.status_code = IF call.pending \ {websocket} = {} THEN 200 ELSE 0]

\* One _send_to_client task of the broadcast of call u
SendToClient(u, c) ==
    /\ updates[u].pc = "sending"
    /\ c \in updates[u].pending
    /\ IF sockets[c].broken
       THEN /\ connections' = unregister_connection(connections, c)
            /\ UNCHANGED sockets
       ELSE /\ sockets' = Deliver(sockets, c, updates[u].message)
            /\ UNCHANGED connections
    /\ updates' = [updates EXCEPT ![u] = AfterSend(@, c, sockets[c].broken)]
    /\ UNCHANGED <<statuses, last_init>>
    /\ UNCHANGED <<parserVars, storeVars, pipelineVars, lockVars, workflowVars>>

\* A seed that writes the record whether or not the id is in the table
initialize_overwriting(st, employee_id, name, extension, clock_status, t) ==
    Upsert(st, EmployeeStatus(employee_id, name, clock_status, t, extension))

initialize_employee(st, employee_id, name, extension, clock_status, t) ==
    IF employee_id \notin DOMAIN st
    THEN Upsert(st, EmployeeStatus(employee_id, name, clock_status, t, extension))
    ELSE st

\* A call of initialize_employee; last_init remembers a call that found the
\* id in the table
Initialize(employee_id, name, clock_status) ==
    /\ statuses' = initialize_employee(statuses, employee_id, name, ExtensionOf(employee_id), clock_status, now)
    /\ last_init' = IF employee_id \in DOMAIN statuses
                    THEN [op |-> "initialize_employee", employee_id |-> employee_id,
                          name |-> name, clock_status |-> clock_status]
                    ELSE last_init
    /\ UNCHANGED <<connections, sockets, updates>>
    /\ UNCHANGED <<parserVars, storeVars, pipelineVars, lockVars, workflowVars>>

\* key = x_api_key or api_key
KeyOf(x_api_key, api_key) == IF Truthy(x_api_key) THEN x_api_key ELSE api_key

get_employee_statuses(x_api_key, api_key) ==
    IF ~Truthy(KeyOf(x_api_key, api_key)) \/ ~validate_api_key(KeyOf(x_api_key, api_key))
    THEN [status_code |-> 401, detail |-> "Invalid or missing API key"]
    ELSE [status_code |-> 200, employees |-> statuses,
          connected_clients |-> Cardinality(connections)]

get_employee_status(employee_id, x_api_key, api_key) ==
    IF ~Truthy(KeyOf(x_api_key, api_key)) \/ ~validate_api_key(KeyOf(x_api_key, api_key))
    THEN [status_code |-> 401, detail |-> "Invalid or missing API key"]
    ELSE IF employee_id \notin DOMAIN statuses
    THEN [status_code |-> 404, detail |-> "Employee not found"]
    ELSE [status_code |-> 200, employee |-> statuses[employee_id]]

\* The REST reads answer from the state and change nothing
ReadAll(x_api_key, api_key) ==
    /\ get_employee_statuses(x_api_key, api_key).status_code \in {200, 401}
    /\ UNCHANGED vars

ReadOne(employee_id, x_api_key, api_key) ==
    /\ get_employee_status(employee_id, x_api_key, api_key).status_code \in {200, 401, 404}
    /\ UNCHANGED vars

----------------------------------------------------------------------------
(* Startup of dashboard-service: the status table is rebuilt from the       *)
(* clock-status endpoint of deputy-service, which queries the Deputy API.   *)
(* The lifespan handler awaits it before the service takes any request.     *)

MaxTimesheets == 2

\* A break slot that is running, one that has ended (0 stands for a value
\* that is absent), and a timesheet without slots
RunningBreak == << [strType |-> "b", intUnixStart |-> 1000, intUnixEnd |-> 0, strState |-> ""] >>
EndedBreak == << [strType |-> "B", intUnixStart |-> 1000, intUnixEnd |-> 2000, strState |-> ""] >>

\* The timesheets in progress Deputy may hold: employees 5 and 6 are mapped,
\* employee 1 is not
ActiveTimesheets ==
    [Employee : {5, 6, 1}, Slots : {<<>>, RunningBreak, EndedBreak}]

TimesheetLists ==
    UNION {[1..n -> ActiveTimesheets] : n \in 0..MaxTimesheets}

\* How a GET or POST of the startup path can end
QueryOutcomes == {"200", "non200", "exception"}
DeputyApiOutcomes == QueryOutcomes \cup {"unconfigured"}

_is_on_active_break(slots) ==
    \E i \in 1..Len(slots) :
        /\ Upper(slots[i].strType) = "B"
        /\ \/ slots[i].intUnixStart # 0 /\ slots[i].intUnixEnd = 0
           \/ ContainsInProgress(Lower(slots[i].strState))
           \/ ContainsStarted(Lower(slots[i].strState))

\* The list of timesheets the endpoint works with: empty unless the Deputy
\* API is configured and answered 200
_query_active_timesheets(api, timesheets) ==
    IF api = "200" THEN timesheets ELSE <<>>

\* active_by_employee[emp_id]: the last timesheet of the list for the id
ActiveOf(active, deputy_id) ==
    LET hits == {i \in 1..Len(active) : DecStr(active[i].Employee) = deputy_id}
    IN  IF hits = {} THEN JNull
        ELSE active[CHOOSE i \in hits : \A j \in hits : j <= i]

\* One entry of the endpoint's answer
ClockStatusEntry(user, active) ==
    [employee_id |-> user.deputy_id,
     name |-> user.name,
     clock_status |-> IF ActiveOf(active, user.deputy_id) = JNull THEN "clocked_out"
                      ELSE IF _is_on_active_break(ActiveOf(active, user.deputy_id).Slots)
                      THEN "on_break"
                      ELSE "clocked_in",
     ringcentral_extension_id |-> UserGet(user, "ringcentral_extension_id")]

\* The body of the endpoint's 200 answer
get_all_employees_clock_status(api, timesheets) ==
    [employees |-> [i \in 1..Len(UserMappings) |->
                       ClockStatusEntry(UserMappings[i],
                                        _query_active_timesheets(api, timesheets))],
     active_timesheets_count |-> Len(_query_active_timesheets(api, timesheets))]

\* status_map.get(status_str, ClockStatus.UNKNOWN)
status_map(status_str) ==
    IF status_str \in {"clocked_in", "clocked_out", "on_break"} THEN status_str
    ELSE "unknown"

\* initialize_employee for one entry of a list of employees
SeedEntry(st, entry, clock_status, t) ==
    initialize_employee(st, entry.employee_id, entry.name,
                        entry.ringcentral_extension_id, clock_status, t)

RECURSIVE SeedAll(_, _, _, _)
\* The for loops of the startup path: entries[1..n] seeded in order, with the
\* status of the entry or with unknown
SeedAll(st, entries, n, t) ==
    IF n = 0 THEN st
    ELSE SeedEntry(SeedAll(st, entries, n - 1, t), entries[n],
                   status_map(entries[n].clock_status), t)

_initialize_employees_unknown(st, t) ==
    SeedAll(st, [i \in 1..Len(UserMappings) |->
                    [employee_id |-> UserMappings[i].deputy_id,
                     name |-> UserMappings[i].name,
                     clock_status |-> "unknown",
                     ringcentral_extension_id |->
                         UserGet(UserMappings[i], "ringcentral_extension_id")]],
            Len(UserMappings), t)

\* recover_statuses_from_deputy for an outcome of the GET and, when it is
\* 200, the body the endpoint computed
recover_statuses_from_deputy(st, service, data, t) ==
    IF service = "200"
    THEN SeedAll(st, data.employees, Len(data.employees), t)
    ELSE _initialize_employees_unknown(st, t)

\* initialize_employee_statuses in the lifespan handler: deputy-service
\* answers the GET with `service`, the Deputy API behind it with `api`, and
\* Deputy holds the timesheets in progress `timesheets`
Startup(service, api, timesheets) ==
    /\ last_init.op = "none"
    /\ statuses = <<>>
    /\ statuses' = recover_statuses_from_deputy(statuses, service,
                       get_all_employees_clock_status(api, timesheets), now)
    /\ last_init' = [op |-> "startup", service |-> service, api |-> api,
                     timesheets |-> timesheets]
    /\ UNCHANGED <<connections, sockets, updates>>
    /\ UNCHANGED <<parserVars, storeVars, pipelineVars, lockVars, workflowVars>>

----------------------------------------------------------------------------
(* workflow-service: the processed_items table behind is_processed and      *)
(* mark_processed, and the loop of the outgoing_call workflow over the      *)
(* calls of a run. A string is the sequence of its parts, so that an id     *)
(* with the workflow prefix differs from the id without it; every database  *)
(* session commits or fails as a whole.                                     *)

MaxRuns == 3

CallIds == {<<"call-1">>, <<"call-2">>}

\* The calls a run of the workflow is handed: a connected call, one that
\* ended too recently, an internal one and one that was not connected
OutgoingCalls ==
    [id : CallIds,
     kind : {[too_recent |-> FALSE, internal |-> FALSE, result |-> "Accepted"],
             [too_recent |-> TRUE, internal |-> FALSE, result |-> "Accepted"],
             [too_recent |-> FALSE, internal |-> TRUE, result |-> "Accepted"],
             [too_recent |-> FALSE, internal |-> FALSE, result |-> "Busy"]}]

\* process_result["status"] / reason of process_single_call
ProcessOutcomes == {"success", "no_match", "error"}

\* f"{workflow_name}:{item_id}"
ProcessedItemId(workflow_name, item_id) == <<workflow_name, ":">> \o item_id

\* session.get(ProcessedItem, item_id), then the test of the row
is_processed(tbl, item_id, workflow_name) ==
    /\ item_id \in DOMAIN tbl
    /\ tbl[item_id].workflow_name = workflow_name

\* session.add(ProcessedItem(...)); session.commit(): the INSERT of a row
\* whose primary key is in the table fails and the commit raises
mark_processed(tbl, item_id, workflow_name, success, details) ==
    IF ProcessedItemId(workflow_name, item_id) \in DOMAIN tbl
    THEN [table |-> tbl, raised |-> TRUE]
    ELSE [table |-> [k \in DOMAIN tbl \cup {ProcessedItemId(workflow_name, item_id)} |->
                        IF k = ProcessedItemId(workflow_name, item_id)
                        THEN [id |-> k, workflow_name |-> workflow_name,
                              success |-> success, details |-> details]
                        ELSE tbl[k]],
          raised |-> FALSE]

\* What one pass of the loop did: the path it took, whether
\* process_single_call ran, and how many mark_processed calls raised
LoopResult(tbl, call, path, processed, mark_errors) ==
    [table |-> tbl, id |-> call.id, path |-> path, processed |-> processed,
     mark_errors |-> mark_errors]

\* The except branch of the loop: mark_processed(success=False) in a try of
\* its own, then error_count += 1
ExceptBranch(tbl, call, processed, mark_errors) ==
    LoopResult(mark_processed(tbl, call.id, "outgoing_call", FALSE, "exception").table,
               call, "error", processed,
               mark_errors +
                   IF mark_processed(tbl, call.id, "outgoing_call", FALSE, "exception").raised
                   THEN 1 ELSE 0)

\* A skip outside the try: an exception of mark_processed leaves the run
SkipBranch(tbl, call, details) ==
    IF mark_processed(tbl, call.id, "outgoing_call", TRUE, details).raised
    THEN LoopResult(tbl, call, "run_raised", FALSE, 1)
    ELSE LoopResult(mark_processed(tbl, call.id, "outgoing_call", TRUE, details).table,
                    call, "skipped", FALSE, 0)

\* After process_single_call returned: the update with the final result
FinalBranch(tbl, call, outcome) ==
    IF mark_processed(tbl, call.id, "outgoing_call", outcome # "error", outcome).raised
    THEN ExceptBranch(tbl, call, TRUE, 1)
    ELSE LoopResult(mark_processed(tbl, call.id, "outgoing_call", outcome # "error",
                                   outcome).table,
                    call, outcome, TRUE, 0)

\* The try block: mark as processing, process the call, update the mark
TryBranch(tbl, call, outcome) ==
    IF mark_processed(tbl, call.id, "outgoing_call", TRUE, "processing").raised
    THEN ExceptBranch(tbl, call, FALSE, 1)
    ELSE FinalBranch(mark_processed(tbl, call.id, "outgoing_call", TRUE, "processing").table,
                     call, outcome)

\* One pass of `for call in calls` in run() of outgoing_call
outgoing_call_pass(tbl, call, outcome) ==
    IF is_processed(tbl, call.id, "outgoing_call")
    THEN LoopResult(tbl, call, "already_processed", FALSE, 0)
    ELSE IF call.kind.too_recent THEN LoopResult(tbl, call, "too_recent", FALSE, 0)
    ELSE IF call.kind.internal THEN SkipBranch(tbl, call, "Skipped: internal call")
    ELSE IF call.kind.result \notin {"Accepted", "Call connected"}
    THEN SkipBranch(tbl, call, "Skipped: result")
    ELSE TryBranch(tbl, call, outcome)

InitWorkflow ==
    /\ processed_items = <<>>
    /\ wf_log = <<>>

Passed(r) ==
    /\ processed_items' = r.table
    /\ wf_log' = Append(wf_log, [id |-> r.id, path |-> r.path, processed |-> r.processed,
                                 mark_errors |-> r.mark_errors])

\* A run of the workflow reaches a call of its list
RunOutgoingCall(call, outcome) ==
    /\ Len(wf_log) < MaxRuns
    /\ Passed(outgoing_call_pass(processed_items, call, outcome))
    /\ UNCHANGED <<broadcastVars, parserVars, storeVars, pipelineVars, lockVars>>

----------------------------------------------------------------------------
(* Specifications *)

Pending == [t |-> "pending"]

\* The webhook pipeline: deliveries, the store, background dispatch and time
Init ==
    /\ payload = JNull
    /\ result = Pending
    /\ InitStore
    /\ InitPipeline
    /\ InitLockClients
    /\ InitBroadcaster
    /\ InitWorkflow

Next ==
    \/ \E d \in Deliveries, body \in Bodies : Receive(d, body)
    \/ \E d \in Deliveries : AcquireExecute(d)
    \/ \E d \in Deliveries : AcquireFails(d)
    \/ \E d \in Deliveries : Respond(d)
    \/ \E d \in Deliveries : ProcessStep(d)
    \/ \E dt \in TickSteps : Tick(dt)

Spec == Init /\ [][Next]_vars

\* The webhook pipeline on deliveries of an Ignore event, of an event without
\* a dedupe key and of an event with one
UnkeyedBodies == {EmptyObj, NoKeyBody, ClockOutBody}

NextUnkeyed ==
    \/ \E d \in Deliveries, body \in UnkeyedBodies : Receive(d, body)
    \/ \E d \in Deliveries : AcquireExecute(d)
    \/ \E d \in Deliveries : AcquireFails(d)
    \/ \E d \in Deliveries : Respond(d)
    \/ \E d \in Deliveries : ProcessStep(d)
    \/ Tick(dedupe_lock_ttl)

SpecUnkeyed == Init /\ [][NextUnkeyed]_vars

\* The dedupe lock alone, under arbitrary callers
InitLock ==
    /\ payload = JNull
    /\ result = Pending
    /\ InitStore
    /\ InitPipeline
    /\ InitLockClients
    /\ InitBroadcaster
    /\ InitWorkflow

NextLock ==
    \/ \E c \in Calls, op \in {"acquire", "complete"}, k \in LockKeys : Issue(c, op, k)
    \/ \E c \in Calls : Execute(c)
    \/ \E dt \in TickSteps : Tick(dt)

SpecLock == InitLock /\ [][NextLock]_vars

\* The parser applied to one payload
InitParser ==
    /\ payload \in Payloads
    /\ result = Pending
    /\ InitStore
    /\ InitPipeline
    /\ InitLockClients
    /\ InitBroadcaster
    /\ InitWorkflow

ParseStep ==
    /\ result = Pending
    /\ result' = parse_timesheet_webhook(payload)
    /\ UNCHANGED <<broadcastVars, payload, storeVars, pipelineVars, lockVars, workflowVars>>

NextParser == ParseStep

SpecParser == InitParser /\ [][NextParser]_vars

\* The status broadcaster under any callers and clients
InitBroadcast ==
    /\ payload = JNull
    /\ result = Pending
    /\ InitStore
    /\ InitPipeline
    /\ InitLockClients
    /\ InitBroadcaster
    /\ InitWorkflow

NextBroadcast ==
    \/ \E c \in Sockets, k \in {JNull, JStr("desktop-key"), JStr("other-key")} : Connect(c, k)
    \/ \E c \in Sockets : Subscribe(c)
    \/ \E c \in Sockets : Break(c)
    \/ \E c \in Sockets : Ping(c)
    \/ \E c \in Sockets : Disconnected(c)
    \/ \E u \in UpdateCalls, k \in {JNull, JStr("desktop-key"), JStr(internal_api_key)}, e \in EmployeeIds, s \in RequestedStatuses : UpdateStatus(u, k, e, "Pat", s)
    \/ \E u \in UpdateCalls, c \in Sockets : SendToClient(u, c)
    \/ \E e \in EmployeeIds : Initialize(e, "Employee 5", "unknown")
    \/ \E cr \in Credentials : ReadAll(cr[1], cr[2])
    \/ \E e \in EmployeeIds \cup {"6"}, cr \in Credentials : ReadOne(e, cr[1], cr[2])

SpecBroadcast == InitBroadcast /\ [][NextBroadcast]_vars

\* The status table alone: requests to the internal update endpoint with
\* every clock status, and seeding, with no client connected
InitTable ==
    /\ payload = JNull
    /\ result = Pending
    /\ InitStore
    /\ InitPipeline
    /\ InitLockClients
    /\ InitBroadcaster
    /\ InitWorkflow

TableEmployees == {"5", "6"}

NextTable ==
    \/ \E u \in UpdateCalls, e \in TableEmployees, s \in ClockStatus : UpdateStatus(u, JStr(internal_api_key), e, "Pat", s)
    \/ \E e \in TableEmployees, s \in {"unknown", "clocked_in"} : Initialize(e, "Employee", s)

SpecTable == InitTable /\ [][NextTable]_vars

\* The startup of the broadcaster under every outcome of the live query
InitStartup ==
    /\ payload = JNull
    /\ result = Pending
    /\ InitStore
    /\ InitPipeline
    /\ InitLockClients
    /\ InitBroadcaster
    /\ InitWorkflow

NextStartup ==
    \E service \in QueryOutcomes, api \in DeputyApiOutcomes, timesheets \in TimesheetLists :
        Startup(service, api, timesheets)

SpecStartup == InitStartup /\ [][NextStartup]_vars

\* Runs of the outgoing_call workflow over the calls they are handed
InitRuns ==
    /\ payload = JNull
    /\ result = Pending
    /\ InitStore
    /\ InitPipeline
    /\ InitLockClients
    /\ InitBroadcaster
    /\ InitWorkflow

NextRuns ==
    \E call \in OutgoingCalls, outcome \in ProcessOutcomes : RunOutgoingCall(call, outcome)

SpecRuns == InitRuns /\ [][NextRuns]_vars

----------------------------------------------------------------------------
(* Properties of the webhook pipeline (Spec) *)

\* Delivery d was answered for an event with a non-Ignore action and a dedupe key
Keyed(d) ==
    /\ req[d].pc = "responded"
    /\ ~IsRaise(req[d].event)
    /\ req[d].event.action # "ignore"
    /\ Truthy(req[d].event.dedupe_key)

\* The background dispatch of delivery d is not running (never started or ended)
TaskEnded(d) == task[d].pc \in {"none", "done", "raised"}

Status(d) ==
    IF "status" \in DOMAIN req[d].response.content THEN req[d].response.content.status
    ELSE "none"

\* Two deliveries of one payload whose admission Redis decided at the same moment
SameMoment(d1, d2) ==
    /\ d1 # d2
    /\ Keyed(d1) /\ Keyed(d2)
    /\ req[d1].body = req[d2].body
    /\ req[d1].arrived_at = req[d2].arrived_at
    /\ req[d1].acquired_at # JNull
    /\ req[d1].acquired_at = req[d2].acquired_at
    /\ TaskEnded(d1) /\ TaskEnded(d2)

\* C1: when two deliveries of one payload (non-Ignore action, dedupe key,
\* employee mapped with an extension) are handled at the same moment, then once
\* both are answered and every dispatch has ended, one was answered accepted
\* and the other duplicate, and the phone-presence call and the
\* broadcast-update call were each made exactly once.
C1_AcceptedOnceDispatchedOnce ==
    \A d1, d2 \in Deliveries :
        SameMoment(d1, d2) =>
            /\ {Status(d1), Status(d2)} = {"accepted", "duplicate"}
            /\ dnd_calls[d1] + dnd_calls[d2] = 1
            /\ dashboard_calls[d1] + dashboard_calls[d2] = 1

\* Delivery d was admitted: acquire_dedupe_lock returned True for it
Admitted(d) == Keyed(d) /\ req[d].lock_acquired = JBool(TRUE)

\* d1 holds the first successful admit of its key
FirstAdmit(d1) ==
    /\ Admitted(d1)
    /\ \A e \in Deliveries :
         (Admitted(e) /\ req[e].event.dedupe_key = req[d1].event.dedupe_key)
            => req[d1].acquired_at.n <= req[e].acquired_at.n

\* The admission of d2 was decided inside the completed-TTL window that the
\* first admit d1 of the same key opened
InWindow(d1, d2) ==
    /\ d1 # d2
    /\ FirstAdmit(d1)
    /\ Keyed(d2)
    /\ req[d2].event.dedupe_key = req[d1].event.dedupe_key
    /\ req[d2].acquired_at # JNull
    /\ req[d1].acquired_at.n <= req[d2].acquired_at.n
    /\ req[d2].acquired_at.n < req[d1].acquired_at.n + dedupe_completed_ttl

C4_CompletedOnEveryExit ==
    \A d \in Deliveries :
        (task[d].pc \in {"done", "raised"} /\ Truthy(req[d].event.dedupe_key))
            => complete_calls[d] = 1

----------------------------------------------------------------------------
(* Properties of the dedupe lock (SpecLock) *)

Returned(c) == calls[c].pc = "returned"

\* The acquire_dedupe_lock(k) calls that have returned
AcquireCalls(k) ==
    {c \in Calls : Returned(c) /\ calls[c].op = "acquire" /\ calls[c].key = k}

\* Calls a and b are concurrent: each was issued before the other executed
Overlap(a, b) ==
    calls[a].issued < calls[b].executed /\ calls[b].issued < calls[a].executed

\* Call a is an acquire_dedupe_lock that executed with no entry for its key
FirstOnAbsent(a) ==
    Returned(a) /\ calls[a].op = "acquire" /\ calls[a].absent_before

\* The acquire_dedupe_lock calls for the key of a that are concurrent with a,
\* executed no earlier than a, and executed before the entry written when a
\* executed could expire: a itself and its concurrent competitors
Competitors(a) ==
    {b \in AcquireCalls(calls[a].key) :
        \/ b = a
        \/ /\ Overlap(a, b)
           /\ calls[a].executed < calls[b].executed
           /\ calls[b].at < calls[a].at + dedupe_lock_ttl}

\* C2: of any N >= 1 concurrent acquire_dedupe_lock(k) calls, with no
\* entry for k beforehand and none expiring in between, exactly one returns
\* True and every other returns False.
C2_ExactlyOneAdmitted ==
    \A a \in Calls :
        FirstOnAbsent(a) =>
            /\ Cardinality({c \in Competitors(a) : calls[c].ret = JBool(TRUE)}) = 1
            /\ \A c \in Competitors(a) : calls[c].ret \in {JBool(TRUE), JBool(FALSE)}

\* Every caller of the model called acquire_dedupe_lock for one key, all of
\* them before any of the calls executed, and all have returned
C2_AllCallersConcurrent ==
    /\ Cardinality(Calls) > 2
    /\ \E a \in Calls : FirstOnAbsent(a) /\ Competitors(a) = Calls
    /\ \A b, c \in Calls : calls[b].issued < calls[c].executed

\* C5: after mark_dedupe_completed(k) has run, every acquire_dedupe_lock(k)
\* issued before the completed TTL elapses returns False, also when it is
\* issued after the processing TTL of the original admit would have run out.
C5_BlockedWhileCompleted ==
    \A m, a \in Calls :
        ( /\ Returned(m) /\ calls[m].op = "complete"
          /\ Returned(a) /\ calls[a].op = "acquire"
          /\ calls[a].key = calls[m].key
          /\ calls[a].issued > calls[m].executed
          /\ calls[a].at < calls[m].at + dedupe_completed_ttl )
            => calls[a].ret = JBool(FALSE)

\* An admit, its completion, and then an acquire of the same key that is
\* turned away after the processing TTL of the admit has run out
C5_BlockedAfterProcessingTtl ==
    \E a0, m, a \in Calls :
        /\ Returned(a0) /\ calls[a0].op = "acquire" /\ calls[a0].ret = JBool(TRUE)
        /\ Returned(m) /\ calls[m].op = "complete" /\ calls[m].key = calls[a0].key
        /\ calls[m].executed > calls[a0].executed
        /\ Returned(a) /\ calls[a].op = "acquire" /\ calls[a].key = calls[a0].key
        /\ calls[a].issued > calls[m].executed
        /\ calls[a].at >= calls[a0].at + dedupe_lock_ttl
        /\ calls[a].at < calls[m].at + dedupe_completed_ttl
        /\ calls[a].ret = JBool(FALSE)

----------------------------------------------------------------------------
(* Properties of the parser (SpecParser) *)

\* parse_timesheet_webhook(payload) returned an event
Parsed == result # Pending /\ ~IsRaise(result)

\* The payload is an object that holds a timesheet record
HasRecord ==
    /\ payload.t = "obj"
    /\ ~IsRaise(_get_timesheet_object(payload))
    /\ _get_timesheet_object(payload).t = "obj"
    /\ Truthy(_get_timesheet_object(payload))

Record == _get_timesheet_object(payload)

\* A field is present when it coerces to a number
Present(v) == v.t = "int"

FieldId == _to_number(DictGet(Record, "Id"))
FieldIsInProgress == _to_bool(DictGet(Record, "IsInProgress"))
FieldStartTime == _to_number(DictGet(Record, "StartTime"))
FieldEndTime == _to_number(DictGet(Record, "EndTime"))
FieldTimestamp == _to_number(DictGet(payload, "timestamp"))
FieldTopic == PyStrip(PyStr(DictGetD(payload, "topic", JStr(""))))

\* The dedupe key of the result, when there is one, starts with prefix
KeyPrefixIfAny(prefix) ==
    result.dedupe_key # JNull => result.dedupe_key.prefix = prefix

\* C6: parse_timesheet_webhook returns an event and never raises, whatever
\* JSON value the payload, its wrapper or any of its fields holds.
C6_NeverRaises == result # Pending => ~IsRaise(result)

\* C7: a record with IsInProgress false (after coercion) and an end time
\* present gives ClockOut with DoNotAcceptDepartmentCalls, event_unix equal
\* to the end time and, when the timesheet id is present, a key starting tco_.
C7_ClockOut ==
    (Parsed /\ HasRecord /\ FieldIsInProgress = JBool(FALSE) /\ Present(FieldEndTime))
        => /\ result.action = "clock_out"
           /\ result.desired_dnd_status = JStr(DO_NOT_ACCEPT_DEPARTMENT_CALLS)
           /\ result.event_unix = FieldEndTime
           /\ Present(FieldId) => /\ result.dedupe_key # JNull
                                  /\ result.dedupe_key.prefix = "tco"

\* The positions in Slots of the break slots: objects of type B whose start
\* coerces to a number
SlotItems == DictGet(Record, "Slots").items
SlotStart(i) == _to_number(DictGet(SlotItems[i], "intUnixStart"))
SlotEnd(i) == _to_number(DictGet(SlotItems[i], "intUnixEnd"))
SlotState(i) == PyLower(PyStr(DictGetD(SlotItems[i], "strState", JStr(""))))

Breaks ==
    IF DictGet(Record, "Slots").t # "list" THEN {}
    ELSE {i \in 1..Len(SlotItems) :
            /\ SlotItems[i].t = "obj"
            /\ IsBreakType(SlotItems[i])
            /\ Present(SlotStart(i))}

\* The breaks with the latest start time; of several with that start, the one
\* that comes last in Slots
LatestBreaks == {i \in Breaks : \A j \in Breaks : SlotStart(j).n <= SlotStart(i).n}
LatestBreak == CHOOSE i \in LatestBreaks : \A j \in LatestBreaks : j <= i

\* No end, or state text containing "in progress" or "started"
SlotInProgress(i) ==
    \/ SlotEnd(i) = JNull
    \/ /\ IsText(SlotState(i))
       /\ ContainsInProgress(SlotState(i).s) \/ ContainsStarted(SlotState(i).s)

SlotEnded(i) == ~SlotInProgress(i) /\ Present(SlotEnd(i))

\* A record with IsInProgress true whose most recent break is in progress
OnBreak ==
    /\ Parsed /\ HasRecord
    /\ FieldIsInProgress = JBool(TRUE)
    /\ LatestBreaks # {}
    /\ \A i \in LatestBreaks : SlotInProgress(i)

C8_InProgressByStateText ==
    /\ OnBreak
    /\ result.action = "break_start"
    /\ Present(SlotEnd(LatestBreak))

\* C9: a record with IsInProgress true whose most recent break slot has
\* ended gives BreakEnd if and only if the webhook timestamp is present and
\* within 180 seconds of the break's end; a BreakEnd has TakeAllCalls,
\* event_unix equal to that end and a key, if any, starting tbe_.
C9_BreakEndIffRecent ==
    ( /\ Parsed /\ HasRecord
      /\ FieldIsInProgress = JBool(TRUE)
      /\ LatestBreaks # {}
      /\ \A i \in LatestBreaks : SlotEnded(i) )
        => /\ result.action = "break_end"
              <=> /\ Present(FieldTimestamp)
                  /\ Abs(FieldTimestamp.n - SlotEnd(LatestBreak).n) <= BreakEndWindow
           /\ result.action = "break_end"
              => /\ result.desired_dnd_status = JStr(TAKE_ALL_CALLS)
                 /\ result.event_unix = SlotEnd(LatestBreak)
                 /\ KeyPrefixIfAny("tbe")

\* The record's Created equals its Modified: both are there and read the same
CreatedIsModified ==
    /\ DictGet(Record, "Created") # JNull
    /\ DictGet(Record, "Modified") # JNull
    /\ PyStr(DictGet(Record, "Created")) = PyStr(DictGet(Record, "Modified"))

\* None of the ClockOut, BreakStart and BreakEnd rules matched
NoEarlierRule ==
    ClockOutOrBreak(FieldIsInProgress, FieldEndTime, FieldTimestamp,
                    _get_most_recent_break_slot(DictGet(Record, "Slots"))).action = "ignore"

\* C10: the result is ClockIn (TakeAllCalls, event_unix = start time, key, if
\* any, starting tci_) exactly when no earlier rule matched, IsInProgress is
\* true, a start time is present, and the topic is an insert or Created
\* equals Modified; an in-progress record that matches no rule gives Ignore
\* with the reason "No actionable event detected".
C10_ClockInExactlyWhen ==
    (Parsed /\ HasRecord)
        => /\ result.action = "clock_in"
              <=> /\ NoEarlierRule
                  /\ FieldIsInProgress = JBool(TRUE)
                  /\ Present(FieldStartTime)
                  /\ IsInsert(FieldTopic) \/ CreatedIsModified
           /\ result.action = "clock_in"
              => /\ result.desired_dnd_status = JStr(TAKE_ALL_CALLS)
                 /\ result.event_unix = FieldStartTime
                 /\ KeyPrefixIfAny("tci")
           /\ (FieldIsInProgress = JBool(TRUE) /\ result.action = "ignore")
              => result.reason = Reason("No actionable event detected")

\* C11: the event has a dedupe key if and only if its timesheet id, a
\* non-Ignore action and its event_unix are all present (whatever integers the
\* id and the time are, 0 included); the key is then the prefix of the action
\* (tci / tco / tbs / tbe) with the hash of "timesheet_id|action|event_unix".
C11_KeyIffAllPresent ==
    (Parsed /\ HasRecord)
        => /\ result.dedupe_key # JNull
              <=> /\ Present(result.timesheet_id)
                  /\ result.action # "ignore"
                  /\ Present(result.event_unix)
           /\ result.dedupe_key # JNull
              => /\ result.dedupe_key.prefix
                      \in {"tci", "tco", "tbs", "tbe"}
                 /\ result.dedupe_key.prefix = PrefixOf(result.action)
                 /\ result.dedupe_key.hex
                      = _fnv1a_hash(IntChars(result.timesheet_id.n) \o <<124>>
                                    \o ActionChars(result.action) \o <<124>>
                                    \o IntChars(result.event_unix.n))

\* The reasons that name the classification rule that fired, per action
RuleReasons(action) ==
    CASE action = "clock_out" -> {"IsInProgress=false and EndTime present"}
      [] action = "break_start" -> {"Most recent break slot is in progress"}
      [] action = "break_end" ->
           {"Most recent break ended recently (within {seconds_since_end}s)"}
      [] action = "clock_in" ->
           {"Timesheet.Insert with IsInProgress=true",
            "Created equals Modified (creation event) with IsInProgress=true"}
      [] OTHER -> {}

\* C12: every returned event with action Ignore has no desired presence and
\* no dedupe key, and every returned event with another action has a desired
\* presence and a reason that names the rule that fired.
C12_EventInvariant ==
    Parsed
        => /\ result.action = "ignore"
              => result.desired_dnd_status = JNull /\ result.dedupe_key = JNull
           /\ result.action # "ignore"
              => /\ result.desired_dnd_status
                      \in {JStr(TAKE_ALL_CALLS), JStr(DO_NOT_ACCEPT_DEPARTMENT_CALLS)}
                 /\ result.reason.text \in RuleReasons(result.action)

\* A record was parsed to a ClockIn by the rule "Created equals Modified"
C12_ClockInByCreation ==
    /\ Parsed
    /\ result.action = "clock_in"
    /\ result.reason.text
         = "Created equals Modified (creation event) with IsInProgress=true"
    /\ result.desired_dnd_status = JStr(TAKE_ALL_CALLS)

\* The payload has key k (an object has keys; no other JSON value does)
HasKey(p, k) == p.t = "obj" /\ k \in DOMAIN p.f

\* The record the payload wraps: the first element of a non-empty data array,
\* a data object, the value under result, the value under record, or the
\* payload itself when it has one of Id, StartTime, IsInProgress; Absent when
\* the payload has none of these forms
WrappedRecord(p) ==
    IF HasKey(p, "data") /\ p.f["data"].t = "list" /\ Len(p.f["data"].items) > 0
    THEN p.f["data"].items[1]
    ELSE IF HasKey(p, "data") /\ p.f["data"].t = "obj" THEN p.f["data"]
    ELSE IF HasKey(p, "result") THEN p.f["result"]
    ELSE IF HasKey(p, "record") THEN p.f["record"]
    ELSE IF \E k \in {"Id", "StartTime", "IsInProgress"} : HasKey(p, k) THEN p
    ELSE Absent

\* C13: a payload from which no timesheet record can be extracted gives
\* action Ignore with no dedupe key and the reason "No timesheet object found
\* in payload"; a payload that wraps a record gives the event of that record.
C13_NoRecordIgnored ==
    result # Pending
        => /\ WrappedRecord(payload) = Absent
              => /\ ~IsRaise(result)
                 /\ result.action = "ignore"
                 /\ result.dedupe_key = JNull
                 /\ result.reason = Reason("No timesheet object found in payload")
           /\ (Parsed /\ WrappedRecord(payload).t = "obj")
              => /\ result.timesheet_id = _to_number(DictGet(WrappedRecord(payload), "Id"))
                 /\ result.employee_id
                      = _to_number(DictGet(WrappedRecord(payload), "Employee"))

----------------------------------------------------------------------------
(* Properties of the dispatcher (Spec) *)

\* The directory entry of the employee of delivery d's event, or JNull
UserOf(d) == find_by_deputy_id(PyStr(req[d].event.employee_id))

\* The event of delivery d names an employee without a directory entry, or
\* with an entry that has no phone-extension id
Unmapped(d) ==
    \/ UserOf(d) = JNull
    \/ "ringcentral_extension_id" \notin DOMAIN UserOf(d)

\* process_timesheet_event was invoked for delivery d and has ended
DispatchEnded(d) == task[d].pc \in {"done", "raised"}

\* C19: when the employee of the event has no directory entry, or the entry
\* has no phone-extension id, process_timesheet_event makes no phone-presence
\* call and no broadcast-update call, raises no error, and has called
\* mark_dedupe_completed for the event's dedupe key when it ends.
C19_UnmappedSkippedAndCompleted ==
    \A d \in Deliveries :
        (DispatchEnded(d) /\ Truthy(req[d].event.dedupe_key) /\ Unmapped(d))
            => /\ dnd_calls[d] = 0
               /\ dashboard_calls[d] = 0
               /\ task[d].pc = "done"
               /\ complete_calls[d] = 1

\* C20: when the event's timesheet_date is not today's date,
\* process_timesheet_event makes no phone-presence call and no
\* broadcast-update call and has called mark_dedupe_completed when it ends;
\* when it is today's date and the employee is mapped with an extension, the
\* phone-presence call and the broadcast update are made.
C20_OnlyTodayDispatched ==
    \A d \in Deliveries :
        (DispatchEnded(d) /\ Truthy(req[d].event.dedupe_key))
            => /\ task[d].pc = "done"
               /\ complete_calls[d] = 1
               /\ IF HasAttr(req[d].event, "timesheet_date")
                     /\ is_today(req[d].event.timesheet_date)
                     /\ ~Unmapped(d)
                  THEN dnd_calls[d] = 1 /\ dashboard_calls[d] = 1
                  ELSE dnd_calls[d] = 0 /\ dashboard_calls[d] = 0

----------------------------------------------------------------------------
(* Properties of the status broadcaster (SpecBroadcast) *)

Inbox(c) == sockets[c].received

\* How many times the status_update of call u was delivered to connection c
Count(c, u) ==
    Cardinality({i \in 1..Len(Inbox(c)) :
                    /\ Inbox(c)[i].type = "status_update"
                    /\ Inbox(c)[i].call = u})

\* Call u of the internal update endpoint reached update_status
Broadcast(u) == updates[u].pc \in {"sending", "done"}

\* C14: each update_status call upserts the employee's record and then
\* results in one status_update message, delivered exactly once to every
\* connection that was registered when the broadcast read the registry and
\* whose send did not fail, and to no other connection; a failed send leaves
\* the other sends going and the call itself ends normally.
C14_OneMessagePerSubscriber ==
    \A u \in UpdateCalls :
        Broadcast(u)
            => /\ updates[u].message.type = "status_update"
               /\ updates[u].message.employee_id \in DOMAIN statuses
               /\ statuses[updates[u].message.employee_id].last_updated
                      >= updates[u].message.timestamp
               /\ updates[u].pending \subseteq updates[u].targets
               /\ updates[u].failed \subseteq updates[u].targets \ updates[u].pending
               /\ (updates[u].pc = "done")
                      <=> (updates[u].pending = {} /\ updates[u].status_code = 200)
               /\ \A c \in Sockets :
                      /\ c \in updates[u].failed => sockets[c].broken
                      /\ Count(c, u) =
                             IF c \in (updates[u].targets \ updates[u].pending)
                                       \ updates[u].failed
                             THEN 1 ELSE 0

\* A broadcast to two connections has ended with the send to one of them
\* failed and the message delivered to the other, while another
\* update_status call was under way
C14_FailureBesideDelivery ==
    \E u, v \in UpdateCalls, c, b \in Sockets :
        /\ u # v
        /\ updates[u].pc = "done"
        /\ updates[u].targets = {c, b}
        /\ updates[u].failed = {c}
        /\ Count(b, u) = 1
        /\ updates[v].pc = "sending"


\* The handler of connection c has run through register_connection and
\* send_all_statuses
Subscribed(c) == sockets[c].pc \in {"open", "closed"}

\* The snapshot sent to connection c after subscribe failed: nothing reaches
\* a connection after a failed send, so its inbox stayed empty
SnapshotFailed(c) == Subscribed(c) /\ Inbox(c) = <<>>

\* C15: a connection on which a send has failed, the snapshot sent after
\* subscribe or a status broadcast, is no longer in the connection registry;
\* the failed message is not sent again, and no broadcast holds it as a
\* target that it has yet to send to unless that broadcast copied the
\* registry before the failure.
C15_FailedSendRemoves ==
    \A c \in Sockets :
        /\ SnapshotFailed(c) => c \notin connections
        /\ \A u \in UpdateCalls :
               c \in updates[u].failed => (c \notin connections /\ Count(c, u) = 0)


\* The snapshot in the inbox of connection c
Snapshot(c) == Inbox(c)[1]

\* C16: a connection accepted with a valid token is sent one all_statuses
\* message when it subscribes: nothing reaches a connection before it has
\* subscribed, the first message in its inbox is the snapshot (it is there
\* unless the client went away), no second snapshot follows, and the
\* snapshot holds the table with every update_status write made before it.
C16_SnapshotFirst ==
    \A c \in Sockets :
        /\ ~Subscribed(c) => Inbox(c) = <<>>
        /\ (Subscribed(c) /\ ~sockets[c].broken) => Inbox(c) # <<>>
        /\ Inbox(c) # <<>>
              => /\ validate_api_key(sockets[c].api_key)
                 /\ Snapshot(c).type = "all_statuses"
                 /\ \A i \in 2..Len(Inbox(c)) : Inbox(c)[i].type = "status_update"
                 /\ \A u \in UpdateCalls :
                        (Broadcast(u) /\ updates[u].message.timestamp < Snapshot(c).timestamp)
                            => /\ updates[u].message.employee_id \in DOMAIN Snapshot(c).employees
                               /\ Snapshot(c).employees[updates[u].message.employee_id].last_updated
                                      >= updates[u].message.timestamp
                 /\ \A e \in DOMAIN Snapshot(c).employees :
                        /\ e \in DOMAIN statuses
                        /\ Snapshot(c).employees[e].last_updated <= statuses[e].last_updated

\* A connection subscribed while the broadcast of one update_status call was
\* under way for another connection: its snapshot holds that call's write,
\* and the message of a later call followed the snapshot
C16_SubscribedDuringBroadcast ==
    \E c \in Sockets, u, v \in UpdateCalls :
        /\ Len(Inbox(c)) = 2
        /\ Snapshot(c).type = "all_statuses"
        /\ Broadcast(u)
        /\ updates[u].targets # {}
        /\ c \notin updates[u].targets
        /\ "5" \in DOMAIN Snapshot(c).employees
        /\ Snapshot(c).employees["5"].last_updated = updates[u].message.timestamp
        /\ Inbox(c)[2] = updates[v].message


\* The tokens the broadcaster recognises
KnownKeys == {JStr(k) : k \in api_keys}

\* What a caller without a recognised token can present in the header and
\* in the query of a REST read: nothing, an empty string, an unknown key
Unrecognised == {JNull, JStr(""), JStr("other-key")}

\* A REST answer that refuses the caller and carries no status data
Refusal(response) ==
    /\ response.status_code = 401
    /\ DOMAIN response \cap {"employees", "employee"} = {}

\* C17: a caller whose token is missing or not recognised is rejected by
\* every endpoint: the REST reads answer 401 without status data, for the
\* single-employee read whether or not the employee exists; a websocket
\* client is never registered and receives nothing; the internal update is
\* refused without a table write or a broadcast, and every record written
\* by an update comes from a call that presented the internal key.
C17_BadTokenRejected ==
    /\ \A h \in Unrecognised, q \in Unrecognised :
           /\ Unrecognised \cap KnownKeys = {}
           /\ Refusal(get_employee_statuses(h, q))
           /\ \A e \in EmployeeIds \cup {"6"} : Refusal(get_employee_status(e, h, q))
    /\ \A c \in Sockets :
           (sockets[c].pc # "idle" /\ sockets[c].api_key \notin KnownKeys)
               => /\ sockets[c].pc = "rejected"
                  /\ c \notin connections
                  /\ Inbox(c) = <<>>
    /\ \A u \in UpdateCalls :
           (updates[u].pc # "idle" /\ updates[u].key # JStr(internal_api_key))
               => /\ updates[u].pc = "refused"
                  /\ updates[u].status_code \in {401, 422}
                  /\ updates[u].message = JNull
                  /\ updates[u].targets = {}
    /\ \A e \in DOMAIN statuses :
           statuses[e].name = "Pat"
               => \E u \in UpdateCalls :
                      /\ Broadcast(u)
                      /\ updates[u].key = JStr(internal_api_key)
                      /\ updates[u].message.employee_id = e
                      /\ updates[u].message.timestamp = statuses[e].last_updated

\* With a record in the table and a connection registered, a websocket
\* client and an internal update with unrecognised tokens have been turned
\* away, and a single-employee read with a bad token asks for that record
C17_TurnedAwayWithDataPresent ==
    /\ "5" \in DOMAIN statuses
    /\ connections # {}
    /\ \E c \in Sockets : sockets[c].pc = "rejected" /\ sockets[c].api_key = JStr("other-key")
    /\ \E u \in UpdateCalls : updates[u].pc = "refused" /\ updates[u].status_code = 401
    /\ get_employee_status("5", JNull, JStr("other-key")).status_code = 401
    /\ get_employee_status("5", JStr("desktop-key"), JNull).status_code = 200


\* A step that is a call of initialize_employee: the table or the note of
\* the last call changes and no update call moves
InitializeStep == updates' = updates /\ (statuses' # statuses \/ last_init' # last_init)

\* C18: initialize_employee inserts a record only for an id that is not in
\* the table: every record that was in the table before the call, seeded
\* earlier or written by update_status, is the same after it (name, status,
\* timestamp and extension), so a second call changes nothing; a new record
\* carries the arguments of the call; and the call sends no message and
\* leaves the registry alone.
C18_SeedOnlyWhenAbsent ==
    [][InitializeStep
          => /\ sockets' = sockets
             /\ connections' = connections
             /\ DOMAIN statuses \subseteq DOMAIN statuses'
             /\ \A e \in DOMAIN statuses : statuses'[e] = statuses[e]
             /\ \A e \in DOMAIN statuses' \ DOMAIN statuses :
                    statuses'[e] = EmployeeStatus(e, "Employee 5", "unknown", now, ExtensionOf(e))]_vars

\* initialize_employee was called for an employee whose record was written
\* by update_status, while a subscriber was connected: the record is still
\* the one update_status wrote and the subscriber got nothing more than its
\* snapshot
C18_SeedAfterUpdateKept ==
    /\ last_init = [op |-> "initialize_employee", employee_id |-> "5",
                    name |-> "Employee 5", clock_status |-> "unknown"]
    /\ statuses["5"].name = "Pat"
    /\ statuses["5"].clock_status = "on_break"
    /\ \E c \in connections : Len(Inbox(c)) = 1

----------------------------------------------------------------------------
(* Properties of the handler's failure behaviour (Spec) *)

\* C21: every answered delivery whose body is JSON is answered HTTP 200 with
\* a status object (ignored, accepted or duplicate), a body that is not JSON is
\* answered 4xx with an error body, and no internal problem, the dedupe store
\* being unreachable included, changes the HTTP status.
C21_AlwaysOkUnlessInvalidJson ==
    \A d \in Deliveries :
        req[d].pc = "responded" =>
            IF req[d].body = InvalidJson
            THEN /\ req[d].response.status_code \in 400..499
                 /\ "error" \in DOMAIN req[d].response.content
            ELSE /\ req[d].response.status_code = 200
                 /\ "status" \in DOMAIN req[d].response.content
                 /\ req[d].response.content.status \in {"ignored", "accepted", "duplicate"}

\* The store could not be reached when delivery d asked for admission
StoreFailed(d) == req[d].pc = "responded" /\ IsRaise(req[d].lock_acquired)

\* The logger call handle_timesheet_webhook makes on the path request r took:
\* warning for a body that is not JSON and for a missing dedupe key, debug for
\* an ignored event, info for a duplicate and for an admitted event; an
\* exception leaves the handler before any logger call of that path
handler_log(r) ==
    IF r.body = InvalidJson THEN JStr("warning")
    ELSE IF IsRaise(r.event) THEN JNull
    ELSE IF r.event.action = "ignore" THEN JStr("debug")
    ELSE IF ~Truthy(r.event.dedupe_key) THEN JStr("warning")
    ELSE IF IsRaise(r.lock_acquired) THEN JNull
    ELSE JStr("info")

\* C22: when the store is unreachable during admit, acquire_dedupe_lock
\* raises to its caller instead of answering True or False, and
\* handle_timesheet_webhook logs a decision of its own and either proceeds
\* (accepted with a warning, the event dispatched) or fails the request
\* (an error status, nothing dispatched).
C22_StoreFailureDecided ==
    \A d \in Deliveries :
        StoreFailed(d) =>
            /\ req[d].lock_acquired \notin {JBool(TRUE), JBool(FALSE)}
            /\ handler_log(req[d]) # JNull
            /\ \/ /\ req[d].response.status_code = 200
                  /\ req[d].response.content.status = "accepted"
                  /\ "warning" \in DOMAIN req[d].response.content
                  /\ task[d].pc # "none"
               \/ /\ req[d].response.status_code >= 400
                  /\ task[d].pc = "none"

----------------------------------------------------------------------------
(* Properties of the dispatcher's call order (Spec) *)

\* The clock status the broadcast update has to carry for an action
MappedStatus(action) ==
    CASE action = "clock_in" -> JStr("clocked_in")
      [] action = "clock_out" -> JStr("clocked_out")
      [] action = "break_start" -> JStr("on_break")
      [] action = "break_end" -> JStr("clocked_in")
      [] OTHER -> JNull

\* C23: for a dispatched event whose employee resolves to a directory entry
\* with an extension, the broadcast-update call is issued only after the
\* phone-presence call has returned, it is issued whatever the outcome of the
\* presence call was, and it carries the clock status mapped from the action
\* (ClockIn clocked_in, ClockOut clocked_out, BreakStart on_break, BreakEnd
\* clocked_in).
C23_BroadcastAfterPresence ==
    \A d \in Deliveries :
        /\ dashboard_calls[d] <= dnd_calls[d]
        /\ task[d].pc = "dnd_sent" => dashboard_calls[d] = 0
        /\ (DispatchEnded(d) /\ ~Unmapped(d))
              => /\ dnd_calls[d] = 1
                 /\ dashboard_calls[d] = 1
                 /\ clock_status_map(req[d].event.action) = MappedStatus(req[d].event.action)

----------------------------------------------------------------------------
(* Properties of the dedupe store's entries (Spec) *)

\* The entry of key k in the store is the one the admit of delivery d created
\* acquire_dedupe_lock returned True for delivery d
Won(d) == req[d].pc \in {"acquire_done", "responded"} /\ req[d].lock_acquired = JBool(TRUE)

CreatedBy(k, d) ==
    /\ Won(d)
    /\ StoreKey(req[d].event.dedupe_key) = k
    /\ store[k].expire_at = req[d].acquired_at.n + dedupe_lock_ttl

\* The entry of key k was written by the completion of delivery d's dispatch
CompletedBy(k, d) ==
    /\ Won(d)
    /\ StoreKey(req[d].event.dedupe_key) = k
    /\ complete_calls[d] = 1
    /\ task[d].pc = "done"

\* Every entry is a processing entry created by a successful admit or a
\* completed entry written by the dispatch of an admitted delivery
EntriesFromAdmit ==
    \A k \in DOMAIN store :
        \/ store[k].value = "processing" /\ \E d \in Deliveries : CreatedBy(k, d)
        \/ store[k].value = "completed" /\ \E d \in Deliveries : CompletedBy(k, d)

\* C24: every entry of the dedupe store was created by a successful admit
\* with the value processing, becomes completed when the dispatcher that won
\* the admit finishes (whether its side effects succeeded or failed), and
\* leaves the store only by TTL expiry: an entry whose dispatcher has ended is
\* completed, and no entry is completed without an admit before it.
C24_EntryLifecycle ==
    /\ EntriesFromAdmit
    /\ \A d \in Deliveries, k \in DOMAIN store :
          (CreatedBy(k, d) /\ DispatchEnded(d)) => store[k].value = "completed"

----------------------------------------------------------------------------
(* Properties of events without a dedupe key (Spec) *)

\* Delivery d was answered for a parsed event
Answered(d) == req[d].pc = "responded" /\ ~IsRaise(req[d].event)

\* Delivery d carried a non-Ignore event for which no dedupe key was generated
Unkeyed(d) ==
    /\ Answered(d)
    /\ req[d].event.action # "ignore"
    /\ ~Truthy(req[d].event.dedupe_key)

\* Delivery d never reached the store: no admit and no complete
NoStoreAccess(d) ==
    /\ req[d].lock_acquired = JNull
    /\ req[d].acquired_at = JNull
    /\ complete_calls[d] = 0

\* C25: a non-Ignore event without a dedupe key is dispatched on every
\* delivery and answered accepted with the warning flag, and neither admit nor
\* complete touches the store for it; an Ignore event is answered ignored
\* without store access or dispatch; every store entry belongs to the key of a
\* delivery that was admitted.
C25_UnkeyedAlwaysDispatched ==
    /\ \A d \in Deliveries :
          /\ Unkeyed(d) =>
                /\ req[d].response.status_code = 200
                /\ Status(d) = "accepted"
                /\ "warning" \in DOMAIN req[d].response.content
                /\ task[d].pc # "none"
                /\ NoStoreAccess(d)
          /\ (Answered(d) /\ req[d].event.action = "ignore") =>
                /\ req[d].response.status_code = 200
                /\ Status(d) = "ignored"
                /\ task[d].pc = "none"
                /\ NoStoreAccess(d)
    /\ \A k \in DOMAIN store :
          \E d \in Deliveries :
              Won(d) /\ Truthy(req[d].event.dedupe_key)
                     /\ StoreKey(req[d].event.dedupe_key) = k

\* Two deliveries of the same key-less payload were both dispatched while the
\* store is empty
C25_UnkeyedDeliveredTwice ==
    /\ Unkeyed(1) /\ Unkeyed(2)
    /\ req[1].body = req[2].body
    /\ task[1].pc # "none" /\ task[2].pc # "none"
    /\ store = <<>>

----------------------------------------------------------------------------
(* Properties of the status table (SpecTable) *)

\* The update_status calls for employee e that wrote the table; calls are
\* numbered in arrival order
Writes(e) ==
    {u \in UpdateCalls : updates[u].pc = "done" /\ updates[u].message.employee_id = e}

\* The write for employee e that arrived last
LastWrite(e) == CHOOSE u \in Writes(e) : \A v \in Writes(e) : v <= u

\* C26: after any sequence of update_status calls for one employee the
\* table holds the status of the call whose write arrived last; the request
\* carries no event time and nothing reorders the writes.
C26_LastWriteWins ==
    \A e \in TableEmployees :
        Writes(e) # {} =>
            /\ e \in DOMAIN statuses
            /\ statuses[e].clock_status = updates[LastWrite(e)].message.clock_status
            /\ statuses[e].last_updated = updates[LastWrite(e)].message.timestamp

\* The clock-out of an earlier event arrives after the clock-in of a later
\* one and replaces it in the table
C26_OlderEventOverwrites ==
    /\ Writes("5") = {1, 2}
    /\ updates[1].message.clock_status = "clocked_in"
    /\ updates[2].message.clock_status = "clocked_out"
    /\ statuses["5"].clock_status = "clocked_out"

KnownStatuses == {"clocked_in", "clocked_out", "on_break"}

\* C27: once the record of an employee has held one of the three known
\* states, no sequence of initialize_employee calls and status updates sets it
\* back to unknown, and no record is deleted: an employee for whom a known
\* status was written has a record with a known status.
C27_NeverBackToUnknown ==
    \A e \in TableEmployees :
        (\E u \in Writes(e) : updates[u].message.clock_status \in KnownStatuses)
            => /\ e \in DOMAIN statuses
               /\ statuses[e].clock_status \in KnownStatuses

----------------------------------------------------------------------------
(* Properties of the broadcaster's startup (SpecStartup) *)

\* The startup has run
Started == last_init.op = "startup"

\* The live query was answered: deputy-service answered 200 and the Deputy
\* API query behind it answered 200
QueryAnswered == last_init.service = "200" /\ last_init.api = "200"

\* The status the timesheets in progress give an employee
LiveStatus(deputy_id) ==
    IF \A i \in 1..Len(last_init.timesheets) :
           DecStr(last_init.timesheets[i].Employee) # deputy_id
    THEN "clocked_out"
    ELSE IF _is_on_active_break(ActiveOf(last_init.timesheets, deputy_id).Slots)
    THEN "on_break"
    ELSE "clocked_in"

\* C28: after startup every mapped employee has a record; its status is the
\* one the live query gives when the query was answered, and unknown whenever
\* the query could not be answered (deputy-service unreachable or not
\* answering 200, the Deputy API failing or not configured).
C28_UnknownWithoutLiveAnswer ==
    Started =>
        \A i \in 1..Len(UserMappings) :
            /\ UserMappings[i].deputy_id \in DOMAIN statuses
            /\ statuses[UserMappings[i].deputy_id].clock_status =
                  IF QueryAnswered THEN LiveStatus(UserMappings[i].deputy_id)
                  ELSE "unknown"

----------------------------------------------------------------------------
(* Properties of subscribing during updates (SpecBroadcast) *)

\* The table write of call u is contained in the snapshot sent to connection c
InSnapshot(c, u) ==
    /\ updates[u].message.employee_id \in DOMAIN Snapshot(c).employees
    /\ Snapshot(c).employees[updates[u].message.employee_id].last_updated
           >= updates[u].message.timestamp

\* C29: a connection that has subscribed and whose client is still there
\* misses no change: for every update_status call, its table write is in the
\* snapshot the connection was sent, or the connection is among the targets
\* of the call's status_update, which has reached it once the send to it is
\* over.
C29_NoChangeMissed ==
    \A c \in Sockets, u \in UpdateCalls :
        (Subscribed(c) /\ ~sockets[c].broken /\ Broadcast(u))
            => /\ Inbox(c) # <<>>
               /\ InSnapshot(c, u) \/ c \in updates[u].targets
               /\ (c \in updates[u].targets \ updates[u].pending) => Count(c, u) = 1

\* A connection subscribed while one update_status call was sending to another
\* connection, and a second call that arrived after it is sending to both
C29_SubscribedBetweenUpdates ==
    \E c, b \in Sockets, u, v \in UpdateCalls :
        /\ c # b /\ u # v
        /\ updates[u].pc = "sending" /\ updates[u].targets = {b}
        /\ updates[v].pc = "sending" /\ updates[v].targets = {b, c}
        /\ ~sockets[c].broken
        /\ Len(Inbox(c)) = 1
        /\ InSnapshot(c, u)
        /\ ~InSnapshot(c, v)

----------------------------------------------------------------------------
(* Properties of the workflow layer's processed marks (SpecRuns) *)

\* The item id a row of processed_items was written for
ItemOf(id) == SubSeq(id, 3, Len(id))

\* A pass of the loop committed a mark for its call
Marked(i) == ProcessedItemId("outgoing_call", wf_log[i].id) \in DOMAIN processed_items

\* C30: after mark_processed(item_id, workflow_name) has committed,
\* is_processed(item_id, workflow_name) is true, so every later pass of the
\* outgoing_call loop over a call that an earlier pass marked stops at the
\* already-processed check, and no mark_processed call of a pass fails, the
\* second one for the same call included.
C30_MarkedIsProcessed ==
    /\ \A id \in DOMAIN processed_items :
           is_processed(processed_items, ItemOf(id), processed_items[id].workflow_name)
    /\ \A i, j \in 1..Len(wf_log) :
           (i < j /\ wf_log[i].id = wf_log[j].id
                  /\ wf_log[i].path \notin {"too_recent", "already_processed"})
               => wf_log[j].path = "already_processed"
    /\ \A i \in 1..Len(wf_log) : wf_log[i].mark_errors = 0

====
